---- MODULE Spec2Model ----
(***************************************************************************)
(* A model of the consensus state machine of the blockchain node: the      *)
(* account database, the mempool, the validate-and-apply critical section, *)
(* the mining worker and the proposals received from peers.                *)
(*                                                                         *)
(* Abstractions: SHA-256 is an ideal (injective) hash, so the hash of a    *)
(* value is the value wrapped in a tuple; the number of leading zero       *)
(* nibbles of a header hash is a fixed function of the header's nonce;     *)
(* an ECDSA signature is the identity of the signer; wall-clock time       *)
(* stamps are left out of headers and transactions. uint64 arithmetic is   *)
(* kept modular at a scaled-down word width (WordBits).                    *)
(***************************************************************************)
EXTENDS Integers, Sequences, FiniteSets, TLC

\* ------------------------------------------------------------------ bounds
WordBits == 6           \* scaled width of the uint64 fields
PowPeriod == 2          \* one nonce in PowPeriod solves the puzzle
MaxEvents == 2          \* submissions, proposals and calls received in one run
maxTxShareRequests == 2  \* capacity of the tx-share channel
MaxLedgerBlocks == 3     \* blocks applied to the accounts taken by themselves

\* ------------------------------------------------------- uint64 arithmetic
U64 == 2 ^ WordBits
MaxU64 == U64 - 1
Add(a, b) == (a + b) % U64
Sub(a, b) == (a - b + U64) % U64
Mul(a, b) == (a * b) % U64

\* ------------------------------------------------------------ account ids
\* The zero value of AccountID is the empty string; ids compare as strings.
EmptyID == ""
AccountOrder == <<"", "a1", "a2", "m1", "m2">>
AccountIDs == {"a1", "a2", "m1", "m2"}
Rank(id) == CHOOSE i \in 1..Len(AccountOrder) : AccountOrder[i] = id

\* genesis.json as loaded by genesis.Load
genesis ==
    [ChainID |-> 1, TransPerBlock |-> 2, Difficulty |-> 1, MiningReward |-> 2,
     GasPrice |-> 1, Balances |-> [a1 |-> 6, a2 |-> 1, m1 |-> 3]]

\* The node's configured beneficiary and the beneficiary of the peers' blocks.
beneficiaryID == "m1"
PeerBeneficiaryID == "m2"

\* ---------------------------------------------------------------- accounts
newAccount(accountID, balance) ==
    [AccountID |-> accountID, Nonce |-> 0, Balance |-> balance]

\* Account{}: what a read of a missing map key yields.
ZeroAccount == [AccountID |-> EmptyID, Nonce |-> 0, Balance |-> 0]

\* db.accounts[k] = v
Store(accts, k, v) == (k :> v) @@ accts

GenesisAccounts ==
    [id \in DOMAIN genesis.Balances |-> newAccount(id, genesis.Balances[id])]

\* ------------------------------------------------------------------ hashes
\* signature.ZeroHash and signature.Hash; "" is the empty hash string of Block{}.
ZeroHash == <<>>
EmptyString == <<"", "">>
Hash(value) == <<value>>

\* sort.Sort(byAccount(accounts)): ascending by the AccountID field.
IsSortedByAccount(s) ==
    \A i \in 1..(Len(s) - 1) : Rank(s[i].AccountID) <= Rank(s[i + 1].AccountID)

RECURSIVE SortedAccounts(_, _)
SortedAccounts(accts, keys) ==
    IF keys = {} THEN <<>>
    ELSE LET k == CHOOSE x \in keys :
                    \A y \in keys : Rank(accts[x].AccountID) <= Rank(accts[y].AccountID)
         IN <<accts[k]>> \o SortedAccounts(accts, keys \ {k})

\* HashState over a slice the accounts were never copied into.
HashStateEmpty(accts) == Hash(<<>>)

HashState(accts) == Hash(SortedAccounts(accts, DOMAIN accts))

\* ------------------------------------------------------------ transactions
\* A BlockTx. Signer is the account whose key produced (v, r, s).
NewTx(from, to, value, nonce, tip) ==
    [ChainID |-> genesis.ChainID, FromID |-> from, ToID |-> to, Value |-> value,
     Nonce |-> nonce, Tip |-> tip, Signer |-> from,
     GasPrice |-> genesis.GasPrice, GasUnits |-> 1]

NoErr == "ok"
ErrNonce == "invalid nonce"
ErrFunds == "insufficient funds"

\* Database.ApplyTransaction: the accounts after the call, the error it
\* returns, and each debit made with the sender's balance it was taken from.
ApplyTransaction(accts, bnfcID, tx) ==
    LET from0 == IF tx.FromID \in DOMAIN accts THEN accts[tx.FromID]
                 ELSE newAccount(tx.FromID, 0)
        to0 == IF tx.ToID \in DOMAIN accts THEN accts[tx.ToID]
               ELSE newAccount(tx.ToID, 0)
        bnfc0 == IF bnfcID \in DOMAIN accts THEN accts[bnfcID]
                 ELSE newAccount(bnfcID, 0)
        fee0 == Mul(tx.GasPrice, tx.GasUnits)
        gasFee == IF fee0 > from0.Balance THEN from0.Balance ELSE fee0
        from1 == [from0 EXCEPT !.Balance = Sub(@, gasFee)]
        bnfc1 == [bnfc0 EXCEPT !.Balance = Add(@, gasFee)]
        db1 == Store(Store(accts, tx.FromID, from1), bnfcID, bnfc1)
        from2 == [from1 EXCEPT !.Balance = Sub(@, tx.Value)]
        to2 == [to0 EXCEPT !.Balance = Add(@, tx.Value)]
        from3 == [from2 EXCEPT !.Balance = Sub(@, tx.Tip), !.Nonce = tx.Nonce]
        bnfc3 == [bnfc1 EXCEPT !.Balance = Add(@, tx.Tip)]
        db3 == Store(Store(Store(db1, tx.FromID, from3), tx.ToID, to2), bnfcID, bnfc3)
        gasDebit == [amount |-> gasFee, balance |-> from0.Balance]
    IN IF tx.Nonce # Add(from1.Nonce, 1)
       THEN [accounts |-> db1, err |-> ErrNonce, gasFee |-> gasFee,
             debits |-> <<gasDebit>>]
       ELSE IF from1.Balance = 0 \/ from1.Balance < Add(tx.Value, tx.Tip)
       THEN [accounts |-> db1, err |-> ErrFunds, gasFee |-> gasFee,
             debits |-> <<gasDebit>>]
       ELSE [accounts |-> db3, err |-> NoErr, gasFee |-> gasFee,
             debits |-> <<gasDebit,
                          [amount |-> tx.Value, balance |-> from1.Balance],
                          [amount |-> tx.Tip, balance |-> from2.Balance]>>]

\* Database.ApplyMiningReward
ApplyMiningReward(accts, bnfcID, reward) ==
    LET account == IF bnfcID \in DOMAIN accts THEN accts[bnfcID] ELSE ZeroAccount
    IN Store(accts, bnfcID, [account EXCEPT !.Balance = Add(@, reward)])

\* ------------------------------------------------------------------ blocks
ZeroHeader ==
    [Number |-> 0, PrevBlockHash |-> EmptyString, BeneficiaryID |-> EmptyID,
     Difficulty |-> 0, MiningReward |-> 0, StateRoot |-> EmptyString,
     TransRoot |-> EmptyString, Nonce |-> 0]

\* Block{}: the latest block of a node that holds no block yet.
ZeroBlock == [Header |-> ZeroHeader, Trans |-> <<>>]

\* Block.Hash without the case of block number 0.
BlockHashNoZero(b) == Hash(b.Header)

\* Block.Hash
BlockHash(b) == IF b.Header.Number = 0 THEN ZeroHash ELSE Hash(b.Header)

\* Tree.RootHex over the transactions of a block.
MerkleRoot(trans) == IF trans = <<>> THEN ZeroHash ELSE Hash(trans)

\* Leading zero nibbles of a header hash (ideal hash: a function of the nonce).
LeadingZeros(hash) ==
    IF hash = ZeroHash THEN 64
    ELSE IF hash[1].Nonce % PowPeriod = 0 THEN 64 ELSE 0

\* isHashSolved, for difficulties within the match constant.
isHashSolved(difficulty, hash) == LeadingZeros(hash) >= difficulty

\* The block POW constructs before it searches for the nonce.
NewBlock(prev, bnfcID, stateRoot, trans, nonce) ==
    [Header |->
        [Number |-> Add(prev.Header.Number, 1),
         PrevBlockHash |-> IF prev.Header.Number > 0 THEN BlockHash(prev) ELSE ZeroHash,
         BeneficiaryID |-> bnfcID,
         Difficulty |-> genesis.Difficulty,
         MiningReward |-> genesis.MiningReward,
         StateRoot |-> stateRoot,
         TransRoot |-> MerkleRoot(trans),
         Nonce |-> nonce],
     Trans |-> trans]

\* SignedTx.Validate without the comparison of the recovered address with
\* the sender.
ValidateTxUnsigned(tx, chainID) ==
    /\ tx.ChainID = chainID
    /\ tx.FromID \in AccountIDs
    /\ tx.ToID \in AccountIDs
    /\ tx.FromID # tx.ToID

\* SignedTx.Validate
ValidateTx(tx, chainID) ==
    /\ tx.ChainID = chainID
    /\ tx.FromID \in AccountIDs
    /\ tx.ToID \in AccountIDs
    /\ tx.FromID # tx.ToID
    /\ tx.Signer = tx.FromID

ErrChainForked == "blockchain forked, start resync"
ErrInvalidBlock == "invalid block"
ErrWrite == "storage write failed"
ErrNoTransactions == "no transactions in the mempool"
ErrCancelled == "context canceled"

\* Block.ValidateBlock
ValidateBlock(b, prev, stateRoot) ==
    IF b.Header.Number # prev.Header.Number + 1
    THEN (IF b.Header.Number > prev.Header.Number + 1
          THEN ErrChainForked ELSE ErrInvalidBlock)
    ELSE IF b.Header.PrevBlockHash # BlockHash(prev) THEN ErrInvalidBlock
    ELSE IF ~isHashSolved(b.Header.Difficulty, BlockHash(b)) THEN ErrInvalidBlock
    ELSE IF b.Header.TransRoot # MerkleRoot(b.Trans) THEN ErrInvalidBlock
    ELSE IF b.Header.StateRoot # stateRoot THEN ErrInvalidBlock
    ELSE IF \E i \in 1..Len(b.Trans) : ~ValidateTx(b.Trans[i], genesis.ChainID)
    THEN ErrInvalidBlock
    ELSE NoErr

\* ----------------------------------------------------------------- mempool
\* The mempool maps the key "<from>:<nonce>" to the transaction.
mapKey(tx) == <<tx.FromID, tx.Nonce>>
Upsert(mp, tx) == (mapKey(tx) :> tx) @@ mp
Delete(mp, tx) == [k \in DOMAIN mp \ {mapKey(tx)} |-> mp[k]]
Count(mp) == Cardinality(DOMAIN mp)
EmptyMempool == [k \in {} |-> ZeroHeader]

\* Tip strategy: higher gas fee plus tip first, ties by ascending (from, nonce).
TipOf(tx) == Mul(tx.GasPrice, tx.GasUnits) + tx.Tip
Before(x, y) ==
    \/ TipOf(x) > TipOf(y)
    \/ /\ TipOf(x) = TipOf(y)
       /\ \/ Rank(x.FromID) < Rank(y.FromID)
          \/ x.FromID = y.FromID /\ x.Nonce <= y.Nonce

RECURSIVE SelectBest(_, _, _)
SelectBest(mp, keys, n) ==
    IF keys = {} \/ n = 0 THEN <<>>
    ELSE LET k == CHOOSE x \in keys : \A y \in keys : Before(mp[x], mp[y])
         IN <<mp[k]>> \o SelectBest(mp, keys \ {k}, n - 1)

PickBest(mp, n) == SelectBest(mp, DOMAIN mp, n)

\* ------------------------------------------------------------------- state
Proposers == {"p1", "p2"}

\* The known peers, this node included, and this node's host.
Host == "h1"
KnownPeers == {"h1", "h2"}
Tasks == {"miner"} \cup Proposers

VARIABLES
    accounts,       \* db.accounts
    latestBlock,    \* db.latestBlock
    chain,          \* the blocks written to storage, in order
    mempool,        \* the mempool's key -> transaction map
    mu,             \* holder of State.mu, "" when free
    pc,             \* position of the mining goroutine and of each proposal handler
    blk,            \* the block each task holds
    idx,            \* index of the next transaction a task applies
    ret,            \* the error the task's last call returned
    wpc,            \* position of the worker's mining loop
    cpc,            \* position of the canceller goroutine
    ctxDone,        \* the mining context is cancelled
    startMining,    \* tokens in the startMining channel (capacity 1)
    cancelMining,   \* tokens in the cancelMining channel (capacity 1)
    sent,           \* blocks handed to NetSendBlockToPeers
    snap,           \* per task: accounts when its block began to apply, results so far
    applied,        \* history of the applied blocks
    call,           \* last direct call of ApplyTransaction (function harness)
    nEvents,        \* submissions and proposals received so far
    peerWon,        \* a proposed block was accepted while this operation's POW ran
    shut,           \* Worker.shut is closed
    spc,            \* position of Worker.Shutdown
    shpc,           \* position of the worker's tx-share loop
    txSharing,      \* the transactions queued in Worker.txSharing
    knownPeers,     \* State.knownPeers, this node's host included
    sweep,          \* runPeersOperation: the peers still to ask, and the answers
    sync,           \* NetRequestPeerBlocks: the blocks a peer returned, and progress
    cancelLog       \* this mining operation: a token was drained, a cancel was signalled

vars == <<accounts, latestBlock, chain, mempool, mu, pc, blk, idx, ret, wpc, cpc,
          ctxDone, startMining, cancelMining, sent, snap, applied, call,
          nEvents, peerWon, shut, spc, shpc, txSharing, knownPeers,
          sweep, sync, cancelLog>>

dbVars == <<accounts, latestBlock, chain>>
workerVars == <<wpc, cpc, ctxDone>>
auxVars == <<shut, spc, shpc, txSharing, knownPeers, sweep, sync, cancelLog>>

NoCall == [used |-> FALSE]
NoRet == [Err |-> NoErr]
NoSnap == [Pre |-> <<>>, Log |-> <<>>]
NoSweep == [pc |-> "idle", todo |-> <<>>, failed |-> {}, listed |-> {}]
NoCancelLog == [drained |-> FALSE, signalled |-> FALSE]
NoSync == [pc |-> "idle", from |-> 0, list |-> <<>>, i |-> 1, base |-> <<>>,
           err |-> NoErr]

\* Transactions the wallets sign and submit.
T1 == NewTx("a1", "a2", 2, 1, 1)
T2 == NewTx("a1", "m1", 1, 2, 0)
T3 == NewTx("m1", "a2", 1, 1, 1)
WalletTxs == {T1, T2, T3}

\* A transaction whose signature does not recover to its sender.
TForged == [NewTx("a2", "a1", 1, 1, 0) EXCEPT !.Signer = "a1"]

Init ==
    /\ accounts = GenesisAccounts
    /\ latestBlock = ZeroBlock
    /\ chain = <<>>
    /\ mempool = EmptyMempool
    /\ mu = ""
    /\ pc = [t \in Tasks |-> IF t = "miner" THEN "off" ELSE "idle"]
    /\ blk = [t \in Tasks |-> ZeroBlock]
    /\ idx = [t \in Tasks |-> 0]
    /\ ret = [t \in Tasks |-> NoRet]
    /\ wpc = "wait"
    /\ cpc = "off"
    /\ ctxDone = FALSE
    /\ startMining = 0
    /\ cancelMining = 0
    /\ sent = {}
    /\ snap = [t \in Tasks |-> NoSnap]
    /\ applied = <<>>
    /\ call = NoCall
    /\ nEvents = 0
    /\ peerWon = FALSE
    /\ shut = FALSE
    /\ spc = "idle"
    /\ shpc = "wait"
    /\ txSharing = <<>>
    /\ knownPeers = KnownPeers
    /\ sweep = NoSweep
    /\ sync = NoSync
    /\ cancelLog = NoCancelLog

\* ------------------------------------------------------------ worker signals
\* Worker.SignalStartMining / Worker.SignalCancelMining: a select with a send
\* on a channel made with capacity 1 and a default case, on a channel that
\* holds n tokens: the send is taken when the buffer has room.
SignalStartMining(n) == IF n < 1 THEN n + 1 ELSE n

\* SignalCancelMining sending on a channel whose buffer always has room.
SignalCancelMiningQueues(n) == n + 1

SignalCancelMining(n) == IF n < 1 THEN n + 1 ELSE n

\* What the worker's events tell of the mining operation in progress: its
\* start logged "drained cancel channel", and SignalCancelMining was called
\* since its start. Between operations the record is empty.
CancelSignalled(log, workerAt) ==
    IF workerAt = "join" THEN [log EXCEPT !.signalled = TRUE] ELSE log

\* ------------------------------------------------------- wallet submissions
\* database.NewBlockTx: the signed transaction with the gas price and the gas
\* units of the node (the timestamp is left out of the model).
NewBlockTx(tx, gasPrice, gasUnits) ==
    [GasPrice |-> gasPrice, GasUnits |-> gasUnits] @@ tx

ErrInvalidTx == "invalid transaction"

\* UpsertWalletTransaction that leaves an entry already in the mempool under
\* the same key in place.
WalletUpsertKeepsFirst(mp, signal, tx) ==
    IF ~ValidateTx(tx, genesis.ChainID)
    THEN [mempool |-> mp, startMining |-> signal, err |-> ErrInvalidTx]
    ELSE LET btx == NewBlockTx(tx, genesis.GasPrice, 1)
         IN [mempool |-> IF mapKey(btx) \in DOMAIN mp THEN mp ELSE Upsert(mp, btx),
             startMining |-> SignalStartMining(signal), err |-> NoErr]

\* State.UpsertWalletTransaction on a mempool and a start-mining channel: the
\* mempool and the channel after the call and the error it returns.
WalletUpsert(mp, signal, tx) ==
    IF ~ValidateTx(tx, genesis.ChainID)
    THEN [mempool |-> mp, startMining |-> signal, err |-> ErrInvalidTx]
    ELSE [mempool |-> Upsert(mp, NewBlockTx(tx, genesis.GasPrice, 1)),
          startMining |-> SignalStartMining(signal), err |-> NoErr]

\* State.UpsertWalletTransaction charging the gas fee of an admitted
\* transaction when it enters the mempool.
UpsertWalletTransactionCharges(tx) ==
    /\ nEvents < MaxEvents
    /\ nEvents' = nEvents + 1
    /\ LET res == WalletUpsert(mempool, startMining, tx)
       IN /\ mempool' = res.mempool
          /\ startMining' = res.startMining
          /\ accounts' = IF res.err = NoErr
                         THEN ApplyTransaction(accounts, beneficiaryID, tx).accounts
                         ELSE accounts
    /\ UNCHANGED <<latestBlock, chain, mu, pc, blk, idx, ret, workerVars,
                   cancelMining, sent, snap, applied, peerWon, auxVars>>

\* State.UpsertWalletTransaction
UpsertWalletTransaction(tx) ==
    /\ nEvents < MaxEvents
    /\ nEvents' = nEvents + 1
    /\ LET res == WalletUpsert(mempool, startMining, tx)
       IN /\ mempool' = res.mempool
          /\ startMining' = res.startMining
    /\ UNCHANGED <<dbVars, mu, pc, blk, idx, ret, workerVars, cancelMining, sent,
                   snap, applied, peerWon, auxVars>>

SubmitTx ==
    /\ \E tx \in WalletTxs \cup {TForged} : UpsertWalletTransaction(tx)
    /\ UNCHANGED call

\* ------------------------------------------- validate-and-apply (State.mu)
\* validateUpdateDatabase without s.mu.Lock().
LockIgnored(holder) == TRUE

\* s.mu.Lock(): the caller proceeds when nobody holds the mutex.
LockFree(holder) == holder = ""

\* What a task does when its call returns err: the mining goroutine ends on
\* an error (its deferred cancel() runs), a proposal handler answers its peer.
Returned(t, err, next) ==
    /\ ret' = [ret EXCEPT ![t] = [Err |-> err]]
    /\ IF t = "miner"
       THEN /\ pc' = [pc EXCEPT ![t] = IF err # NoErr THEN "done" ELSE next]
            /\ ctxDone' = (ctxDone \/ err # NoErr)
            /\ UNCHANGED blk
       ELSE /\ pc' = [pc EXCEPT ![t] = IF err # NoErr THEN "idle" ELSE next]
            /\ blk' = [blk EXCEPT ![t] = IF err # NoErr THEN ZeroBlock ELSE @]
            /\ UNCHANGED ctxDone

\* validateUpdateDatabase going on to db.Write whatever ValidateBlock
\* returned.
VudValidateIgnoresError(t) ==
    /\ pc[t] = "validate"
    /\ LockFree(mu)
    /\ mu' = t
    /\ pc' = [pc EXCEPT ![t] = "write"]
    /\ UNCHANGED <<ret, ctxDone, blk>>
    /\ UNCHANGED <<dbVars, mempool, idx, wpc, cpc, startMining, cancelMining,
                   sent, snap, applied, call, peerWon, auxVars, nEvents>>

\* validateUpdateDatabase that takes the miner's own candidate without
\* ValidateBlock.
VudValidateTrustsMiner(t) ==
    /\ pc[t] = "validate"
    /\ LockFree(mu)
    /\ LET err == IF t = "miner" THEN NoErr
                  ELSE ValidateBlock(blk[t], latestBlock, HashState(accounts))
       IN IF err # NoErr
          THEN /\ Returned(t, err, "idle")
               /\ UNCHANGED mu
          ELSE /\ mu' = t
               /\ pc' = [pc EXCEPT ![t] = "write"]
               /\ UNCHANGED <<ret, ctxDone, blk>>
    /\ UNCHANGED <<dbVars, mempool, idx, wpc, cpc, startMining, cancelMining,
                   sent, snap, applied, call, peerWon, auxVars, nEvents>>

\* validateUpdateDatabase, lock and ValidateBlock: an invalid block returns
\* the error with nothing written.
VudValidate(t) ==
    /\ pc[t] = "validate"
    /\ LockFree(mu)
    /\ LET err == ValidateBlock(blk[t], latestBlock, HashState(accounts))
       IN IF err # NoErr
          THEN /\ Returned(t, err, "idle")
               /\ UNCHANGED mu
          ELSE /\ mu' = t
               /\ pc' = [pc EXCEPT ![t] = "write"]
               /\ UNCHANGED <<ret, ctxDone, blk>>
    /\ UNCHANGED <<dbVars, mempool, idx, wpc, cpc, startMining, cancelMining,
                   sent, snap, applied, call, peerWon, auxVars, nEvents>>

\* db.UpdateLatestBlock placed ahead of the check of db.Write's error.
LatestBeforeWrite(latest, b, err) == b

\* validateUpdateDatabase: db.UpdateLatestBlock follows db.Write, and is not
\* reached when Write returned an error.
LatestAfterWrite(latest, b, err) == IF err # NoErr THEN latest ELSE b

\* validateUpdateDatabase, db.Write then db.UpdateLatestBlock. The storage
\* either appends the block or fails and keeps nothing of it.
VudWrite(t) ==
    /\ pc[t] = "write"
    /\ \/ /\ chain' = Append(chain, blk[t])
          /\ latestBlock' = LatestAfterWrite(latestBlock, blk[t], NoErr)
          /\ snap' = [snap EXCEPT ![t] = [Pre |-> accounts, Log |-> <<>>]]
          /\ idx' = [idx EXCEPT ![t] = 1]
          /\ pc' = [pc EXCEPT ![t] = "apply"]
          /\ UNCHANGED <<mu, ret, ctxDone, blk>>
       \/ /\ Returned(t, ErrWrite, "idle")
          /\ latestBlock' = LatestAfterWrite(latestBlock, blk[t], ErrWrite)
          /\ mu' = ""
          /\ UNCHANGED <<chain, snap, idx>>
    /\ UNCHANGED <<accounts, mempool, wpc, cpc, startMining, cancelMining,
                   sent, applied, call, peerWon, auxVars, nEvents>>

\* The loop of validateUpdateDatabase with mempool.Delete placed after the
\* `continue` of a failed ApplyTransaction.
VudApplyTxDeleteOnSuccess(t) ==
    /\ pc[t] = "apply"
    /\ idx[t] <= Len(blk[t].Trans)
    /\ LET tx == blk[t].Trans[idx[t]]
           res == ApplyTransaction(accounts, blk[t].Header.BeneficiaryID, tx)
           from == tx.FromID
           pre == IF from \in DOMAIN accounts THEN accounts[from].Nonce ELSE 0
       IN /\ mempool' = IF res.err = NoErr THEN Delete(mempool, tx) ELSE mempool
          /\ accounts' = res.accounts
          /\ snap' = [snap EXCEPT ![t].Log =
                        Append(@, [Key |-> mapKey(tx), Err |-> res.err,
                                   PreNonce |-> pre,
                                   PostNonce |-> res.accounts[from].Nonce])]
    /\ idx' = [idx EXCEPT ![t] = @ + 1]
    /\ UNCHANGED <<latestBlock, chain, mu, pc, blk, ret, workerVars, startMining,
                   cancelMining, sent, applied, call, peerWon, auxVars, nEvents>>

\* validateUpdateDatabase, one turn of the loop over the block's transactions:
\* mempool.Delete, then db.ApplyTransaction (an error is logged and skipped).
VudApplyTx(t) ==
    /\ pc[t] = "apply"
    /\ idx[t] <= Len(blk[t].Trans)
    /\ LET tx == blk[t].Trans[idx[t]]
           res == ApplyTransaction(accounts, blk[t].Header.BeneficiaryID, tx)
           from == tx.FromID
           pre == IF from \in DOMAIN accounts THEN accounts[from].Nonce ELSE 0
       IN /\ mempool' = Delete(mempool, tx)
          /\ accounts' = res.accounts
          /\ snap' = [snap EXCEPT ![t].Log =
                        Append(@, [Key |-> mapKey(tx), Err |-> res.err,
                                   PreNonce |-> pre,
                                   PostNonce |-> res.accounts[from].Nonce])]
    /\ idx' = [idx EXCEPT ![t] = @ + 1]
    /\ UNCHANGED <<latestBlock, chain, mu, pc, blk, ret, workerVars, startMining,
                   cancelMining, sent, applied, call, peerWon, auxVars, nEvents>>

\* validateUpdateDatabase, db.ApplyMiningReward and the deferred unlock.
VudReward(t) ==
    /\ pc[t] = "apply"
    /\ idx[t] > Len(blk[t].Trans)
    /\ accounts' = ApplyMiningReward(accounts, blk[t].Header.BeneficiaryID,
                                     blk[t].Header.MiningReward)
    /\ applied' = Append(applied, [Block |-> blk[t], Pre |-> snap[t].Pre,
                                   Post |-> accounts', Log |-> snap[t].Log])
    /\ snap' = [snap EXCEPT ![t] = NoSnap]
    /\ mu' = ""
    /\ Returned(t, NoErr, IF t = "miner" THEN "mined" ELSE "signal")
    /\ UNCHANGED <<latestBlock, chain, mempool, idx, wpc, cpc, startMining,
                   cancelMining, sent, call, peerWon, auxVars, nEvents>>

\* ----------------------------------------------------------- peer proposals
\* The blocks a peer may propose, built on what the peer knows of this node:
\* well-formed successors of the latest block, and blocks no state accepts.
GoodBlock(latest, accts, trans) ==
    NewBlock(latest, PeerBeneficiaryID, HashState(accts), trans, 0)

PeerBlocks(latest, accts) ==
    {GoodBlock(latest, accts, <<T1>>), GoodBlock(latest, accts, <<T3>>)}

BadBlocks(latest, accts) ==
    LET b == GoodBlock(latest, accts, <<T1>>)
    IN {[b EXCEPT !.Header.Number = @ + 1],
        [b EXCEPT !.Header.PrevBlockHash = Hash(ZeroHeader)],
        [b EXCEPT !.Header.Nonce = 1],
        [b EXCEPT !.Header.TransRoot = MerkleRoot(<<T2>>)],
        [b EXCEPT !.Header.StateRoot = Hash(<<>>)],
        GoodBlock(latest, accts, <<TForged>>)}

\* Handlers.ProposeBlock: ToBlock, then State.ProcessProposedBlock is entered.
\* Handlers are interchangeable: the second one serves while the first is busy.
ProposeBlock(t, b) ==
    /\ pc[t] = "idle"
    /\ t = "p2" => pc["p1"] # "idle"
    /\ nEvents < MaxEvents
    /\ nEvents' = nEvents + 1
    /\ blk' = [blk EXCEPT ![t] = b]
    /\ pc' = [pc EXCEPT ![t] = "validate"]
    /\ UNCHANGED <<dbVars, mempool, mu, idx, ret, workerVars, startMining,
                   cancelMining, sent, snap, applied, call, peerWon, auxVars>>

\* A proposal of a block built to fail validation, with ProcessProposedBlock
\* calling SignalCancelMining whatever validateUpdateDatabase returned.
ProposeBadBlockCancels(t, b) ==
    /\ pc[t] = "idle"
    /\ t = "p2" => pc["p1"] # "idle"
    /\ nEvents < MaxEvents
    /\ nEvents' = nEvents + 1
    /\ LockFree(mu)
    /\ LET err == ValidateBlock(b, latestBlock, HashState(accounts))
       IN IF err # NoErr
          THEN /\ ret' = [ret EXCEPT ![t] = [Err |-> err]]
               /\ cancelMining' = SignalCancelMining(cancelMining)
               /\ UNCHANGED <<mu, pc, blk>>
          ELSE /\ mu' = t
               /\ pc' = [pc EXCEPT ![t] = "write"]
               /\ blk' = [blk EXCEPT ![t] = b]
               /\ UNCHANGED <<ret, cancelMining>>
    /\ UNCHANGED <<dbVars, mempool, idx, workerVars, startMining,
                   sent, snap, applied, call, peerWon, auxVars>>

\* A proposal of a block built to fail validation: its handler takes the lock
\* and calls ValidateBlock in the step that receives it (the wait for the lock
\* changes nothing); the block goes on to db.Write only if ValidateBlock
\* accepts it.
ProposeBadBlock(t, b) ==
    /\ pc[t] = "idle"
    /\ t = "p2" => pc["p1"] # "idle"
    /\ nEvents < MaxEvents
    /\ nEvents' = nEvents + 1
    /\ LockFree(mu)
    /\ LET err == ValidateBlock(b, latestBlock, HashState(accounts))
       IN IF err # NoErr
          THEN /\ ret' = [ret EXCEPT ![t] = [Err |-> err]]
               /\ UNCHANGED <<mu, pc, blk>>
          ELSE /\ mu' = t
               /\ pc' = [pc EXCEPT ![t] = "write"]
               /\ blk' = [blk EXCEPT ![t] = b]
               /\ UNCHANGED ret
    /\ UNCHANGED <<dbVars, mempool, idx, workerVars, startMining,
                   cancelMining, sent, snap, applied, call, peerWon, auxVars>>

\* State.ProcessProposedBlock after validateUpdateDatabase returned nil.
ProcessProposedBlock(t) ==
    /\ pc[t] = "signal"
    /\ cancelMining' = SignalCancelMining(cancelMining)
    /\ cancelLog' = CancelSignalled(cancelLog, wpc)
    /\ peerWon' = (peerWon \/ pc["miner"] = "pow")
    /\ pc' = [pc EXCEPT ![t] = "idle"]
    /\ blk' = [blk EXCEPT ![t] = ZeroBlock]
    /\ UNCHANGED <<dbVars, mempool, mu, idx, ret, workerVars, startMining,
                   sent, snap, applied, call, shut, spc, shpc, txSharing,
                   knownPeers, sweep, sync, nEvents>>

\* ------------------------------------------------------ State.MineNewBlock
\* The mining goroutine ends with an error: its deferred cancel() runs.
MinerReturns(err) ==
    /\ ret' = [ret EXCEPT !["miner"] = [Err |-> err]]
    /\ pc' = [pc EXCEPT !["miner"] = "done"]
    /\ ctxDone' = TRUE

\* s.mempool.Count() == 0 returns ErrNoTransactions.
MineCount ==
    /\ pc["miner"] = "count"
    /\ IF Count(mempool) = 0
       THEN MinerReturns(ErrNoTransactions)
       ELSE /\ pc' = [pc EXCEPT !["miner"] = "pick"]
            /\ UNCHANGED <<ret, ctxDone>>
    /\ UNCHANGED <<dbVars, mempool, mu, blk, idx, wpc, cpc, startMining,
                   cancelMining, sent, snap, applied, call, peerWon, auxVars, nEvents>>

\* MineNewBlock taking the picked transactions out of the mempool.
MinePickRemoves ==
    /\ pc["miner"] = "pick"
    /\ blk' = [blk EXCEPT !["miner"] =
                  [ZeroBlock EXCEPT !.Trans = PickBest(mempool, genesis.TransPerBlock)]]
    /\ mempool' = [k \in DOMAIN mempool \
                      {mapKey(blk'["miner"].Trans[i]) : i \in DOMAIN blk'["miner"].Trans}
                   |-> mempool[k]]
    /\ pc' = [pc EXCEPT !["miner"] = "latest"]
    /\ UNCHANGED <<dbVars, mu, idx, ret, workerVars, startMining,
                   cancelMining, sent, snap, applied, call, peerWon, auxVars,
                   nEvents>>

\* trans := s.mempool.PickBest(s.genesis.TransPerBlock)
MinePick ==
    /\ pc["miner"] = "pick"
    /\ blk' = [blk EXCEPT !["miner"] =
                  [ZeroBlock EXCEPT !.Trans = PickBest(mempool, genesis.TransPerBlock)]]
    /\ pc' = [pc EXCEPT !["miner"] = "latest"]
    /\ UNCHANGED <<dbVars, mempool, mu, idx, ret, workerVars, startMining,
                   cancelMining, sent, snap, applied, call, peerWon, auxVars, nEvents>>

\* PrevBlock: s.db.LatestBlock(), read without State.mu.
MineLatest ==
    /\ pc["miner"] = "latest"
    /\ blk' = [blk EXCEPT !["miner"] =
                  NewBlock(latestBlock, beneficiaryID, EmptyString, @.Trans, 0)]
    /\ pc' = [pc EXCEPT !["miner"] = "state"]
    /\ UNCHANGED <<dbVars, mempool, mu, idx, ret, workerVars, startMining,
                   cancelMining, sent, snap, applied, call, peerWon, auxVars, nEvents>>

\* StateRoot: s.db.HashState(), read without State.mu; POW then builds the
\* block and performPOW draws the nonce it starts from.
MineState ==
    /\ pc["miner"] = "state"
    /\ \E n \in 0..(PowPeriod - 1) :
          blk' = [blk EXCEPT !["miner"].Header.StateRoot = HashState(accounts),
                             !["miner"].Header.Nonce = n]
    /\ pc' = [pc EXCEPT !["miner"] = "pow"]
    /\ UNCHANGED <<dbVars, mempool, mu, idx, ret, workerVars, startMining,
                   cancelMining, sent, snap, applied, call, peerWon, auxVars, nEvents>>

\* performPOW without the ctx.Err() check at the head of the loop.
performPOWUnchecked ==
    /\ pc["miner"] = "pow"
    /\ IF isHashSolved(blk["miner"].Header.Difficulty, BlockHash(blk["miner"]))
       THEN /\ pc' = [pc EXCEPT !["miner"] = "ctxcheck"]
            /\ UNCHANGED blk
       ELSE /\ blk' = [blk EXCEPT !["miner"].Header.Nonce = Add(@, 1)]
            /\ UNCHANGED pc
    /\ UNCHANGED <<dbVars, mempool, mu, idx, ret, wpc, cpc, ctxDone, startMining,
                   cancelMining, sent, snap, applied, call, peerWon, auxVars,
                   nEvents>>

\* One turn of the performPOW loop: the cancellation check, then the hash.
performPOW ==
    /\ pc["miner"] = "pow"
    /\ IF ctxDone
       THEN /\ MinerReturns(ErrCancelled)
            /\ UNCHANGED blk
       ELSE /\ IF isHashSolved(blk["miner"].Header.Difficulty, BlockHash(blk["miner"]))
               THEN /\ pc' = [pc EXCEPT !["miner"] = "ctxcheck"]
                    /\ UNCHANGED blk
               ELSE /\ blk' = [blk EXCEPT !["miner"].Header.Nonce = Add(@, 1)]
                    /\ UNCHANGED pc
            /\ UNCHANGED <<ret, ctxDone>>
    /\ UNCHANGED <<dbVars, mempool, mu, idx, wpc, cpc, startMining, cancelMining,
                   sent, snap, applied, call, peerWon, auxVars, nEvents>>

\* MineNewBlock returning the block of POW without validateUpdateDatabase.
MineReturnsUnapplied ==
    /\ pc["miner"] = "ctxcheck"
    /\ IF ctxDone
       THEN MinerReturns(ErrCancelled)
       ELSE /\ pc' = [pc EXCEPT !["miner"] = "mined"]
            /\ UNCHANGED <<ret, ctxDone>>
    /\ UNCHANGED <<dbVars, mempool, mu, blk, idx, wpc, cpc, startMining,
                   cancelMining, sent, snap, applied, call, peerWon, auxVars, nEvents>>

\* "Check one more time we were not canceled", then validateUpdateDatabase.
MineCtxCheck ==
    /\ pc["miner"] = "ctxcheck"
    /\ IF ctxDone
       THEN MinerReturns(ErrCancelled)
       ELSE /\ pc' = [pc EXCEPT !["miner"] = "validate"]
            /\ UNCHANGED <<ret, ctxDone>>
    /\ UNCHANGED <<dbVars, mempool, mu, blk, idx, wpc, cpc, startMining,
                   cancelMining, sent, snap, applied, call, peerWon, auxVars, nEvents>>

\* ------------------------------------------------------------ mining worker
\* The start of a mining operation without the drain of the cancel channel.
StartOperationNoDrain ==
    /\ IF Count(mempool) = 0
       THEN UNCHANGED <<pc, blk, ret, wpc, cpc, ctxDone, cancelMining, peerWon,
                        cancelLog>>
       ELSE /\ cancelLog' = [drained |-> FALSE, signalled |-> FALSE]
            /\ peerWon' = FALSE
            /\ ctxDone' = FALSE
            /\ pc' = [pc EXCEPT !["miner"] = "count"]
            /\ blk' = [blk EXCEPT !["miner"] = ZeroBlock]
            /\ ret' = [ret EXCEPT !["miner"] = NoRet]
            /\ cpc' = "select"
            /\ wpc' = "join"
            /\ UNCHANGED cancelMining

\* The start of a mining operation: the mempool length check, the drain of
\* the cancel channel, the new context and the two goroutines.
StartOperation ==
    /\ IF Count(mempool) = 0
       THEN UNCHANGED <<pc, blk, ret, wpc, cpc, ctxDone, cancelMining, peerWon,
                        cancelLog>>
       ELSE /\ cancelMining' = 0
            /\ cancelLog' = [drained |-> cancelMining = 1, signalled |-> FALSE]
            /\ peerWon' = FALSE
            /\ ctxDone' = FALSE
            /\ pc' = [pc EXCEPT !["miner"] = "count"]
            /\ blk' = [blk EXCEPT !["miner"] = ZeroBlock]
            /\ ret' = [ret EXCEPT !["miner"] = NoRet]
            /\ cpc' = "select"
            /\ wpc' = "join"

\* powOperations receives a start signal and, unless the worker is shut down,
\* enters runPowOperation.
powOperations ==
    /\ wpc = "wait"
    /\ startMining = 1
    /\ startMining' = 0
    /\ IF shut
       THEN UNCHANGED <<pc, blk, ret, wpc, cpc, ctxDone, cancelMining, peerWon,
                        cancelLog>>
       ELSE StartOperation
    /\ UNCHANGED <<dbVars, mempool, mu, idx, sent, snap, applied, call, shut,
                   spc, shpc, txSharing, knownPeers, sweep, sync, nEvents>>

\* The canceller goroutine waiting for a cancel token only.
CancellerTokenOnly ==
    /\ cpc = "select"
    /\ cancelMining = 1
    /\ cancelMining' = 0
    /\ ctxDone' = TRUE
    /\ cpc' = "done"
    /\ UNCHANGED <<dbVars, mempool, mu, pc, blk, idx, ret, wpc, startMining, sent,
                   snap, applied, call, peerWon, auxVars, nEvents>>

\* The canceller goroutine: a cancel token, or the context is done.
Canceller ==
    /\ cpc = "select"
    /\ \/ /\ cancelMining = 1
          /\ cancelMining' = 0
       \/ /\ ctxDone
          /\ UNCHANGED cancelMining
    /\ ctxDone' = TRUE
    /\ cpc' = "done"
    /\ UNCHANGED <<dbVars, mempool, mu, pc, blk, idx, ret, wpc, startMining, sent,
                   snap, applied, call, peerWon, auxVars, nEvents>>

\* runPowOperation's mining goroutine after MineNewBlock returned a block.
PowMined ==
    /\ pc["miner"] = "mined"
    /\ pc' = [pc EXCEPT !["miner"] = "done"]
    /\ ctxDone' = TRUE
    /\ UNCHANGED <<dbVars, mempool, mu, blk, idx, ret, wpc, cpc, startMining,
                   cancelMining, sent, snap, applied, call, peerWon, auxVars, nEvents>>

\* runPowOperation without the deferred SignalStartMining.
runPowOperationNoResignal ==
    /\ wpc = "join"
    /\ pc["miner"] = "done"
    /\ cpc = "done"
    /\ wpc' = "wait"
    /\ cpc' = "off"
    /\ pc' = [pc EXCEPT !["miner"] = "off"]
    /\ blk' = [blk EXCEPT !["miner"] = ZeroBlock]
    /\ cancelLog' = NoCancelLog
    /\ UNCHANGED <<dbVars, mempool, mu, idx, ret, ctxDone, startMining,
                   cancelMining, sent, snap, applied, call, peerWon, shut, spc,
                   shpc, txSharing, knownPeers, sweep, sync, nEvents>>

\* runPowOperation whose wg.Wait() waits for the mining goroutine only.
runPowOperationMinerOnly ==
    /\ wpc = "join"
    /\ pc["miner"] = "done"
    /\ wpc' = "wait"
    /\ cpc' = IF cpc = "done" THEN "off" ELSE cpc
    /\ pc' = [pc EXCEPT !["miner"] = "off"]
    /\ blk' = [blk EXCEPT !["miner"] = ZeroBlock]
    /\ startMining' = IF Count(mempool) > 0 THEN SignalStartMining(startMining)
                      ELSE startMining
    /\ cancelLog' = NoCancelLog
    /\ UNCHANGED <<dbVars, mempool, mu, idx, ret, ctxDone, cancelMining, sent,
                   snap, applied, call, peerWon, shut, spc, shpc, txSharing,
                   knownPeers, sweep, sync, nEvents>>

\* runPowOperation: wg.Wait() returns, the deferred re-signal runs.
runPowOperation ==
    /\ wpc = "join"
    /\ pc["miner"] = "done"
    /\ cpc = "done"
    /\ wpc' = "wait"
    /\ cpc' = "off"
    /\ pc' = [pc EXCEPT !["miner"] = "off"]
    /\ blk' = [blk EXCEPT !["miner"] = ZeroBlock]
    /\ startMining' = IF Count(mempool) > 0 THEN SignalStartMining(startMining)
                      ELSE startMining
    /\ cancelLog' = NoCancelLog
    /\ UNCHANGED <<dbVars, mempool, mu, idx, ret, ctxDone, cancelMining, sent,
                   snap, applied, call, peerWon, shut, spc, shpc, txSharing,
                   knownPeers, sweep, sync, nEvents>>

\* ------------------------------------------------------------------ shutdown
\* Worker.Shutdown: SignalCancelMining.
ShutdownSignal ==
    /\ spc = "idle"
    /\ nEvents < MaxEvents
    /\ nEvents' = nEvents + 1
    /\ cancelMining' = SignalCancelMining(cancelMining)
    /\ cancelLog' = CancelSignalled(cancelLog, wpc)
    /\ spc' = "close"
    /\ UNCHANGED <<dbVars, mempool, mu, pc, blk, idx, ret, workerVars,
                   startMining, sent, snap, applied, call, peerWon, shut, shpc,
                   txSharing, knownPeers, sweep, sync>>

\* Worker.Shutdown: close(w.shut).
ShutdownClose ==
    /\ spc = "close"
    /\ shut' = TRUE
    /\ spc' = "wait"
    /\ UNCHANGED <<dbVars, mempool, mu, pc, blk, idx, ret, workerVars,
                   startMining, cancelMining, sent, snap, applied, call, peerWon,
                   shpc, txSharing, knownPeers, sweep, sync,
                   cancelLog, nEvents>>

\* Worker.Shutdown: w.wg.Wait() returns when every operation has returned.
ShutdownWait ==
    /\ spc = "wait"
    /\ wpc = "returned"
    /\ shpc = "returned"
    /\ spc' = "done"
    /\ UNCHANGED <<dbVars, mempool, mu, pc, blk, idx, ret, workerVars,
                   startMining, cancelMining, sent, snap, applied, call, peerWon,
                   shut, shpc, txSharing, knownPeers, sweep, sync,
                   cancelLog, nEvents>>

\* powOperations: the shut case of the select.
powShutdown ==
    /\ wpc = "wait"
    /\ shut
    /\ wpc' = "returned"
    /\ UNCHANGED <<dbVars, mempool, mu, pc, blk, idx, ret, cpc, ctxDone,
                   startMining, cancelMining, sent, snap, applied, call, peerWon,
                   auxVars, nEvents>>

\* shareTxOperations: the shut case of the select.
shareTxShutdown ==
    /\ shpc = "wait"
    /\ shut
    /\ shpc' = "returned"
    /\ UNCHANGED <<dbVars, mempool, mu, pc, blk, idx, ret, workerVars,
                   startMining, cancelMining, sent, snap, applied, call, peerWon,
                   shut, spc, txSharing, knownPeers, sweep, sync,
                   cancelLog, nEvents>>

\* ---------------------------------------------------- proof of authority
\* sort.Strings(names)
SortedNames == <<"h1", "h2">>

\* fnv.New32a over the latest block's hash (an ideal hash: a number that the
\* header determines).
Fnv32a(hash) == IF hash = ZeroHash THEN 0 ELSE hash[1].Number + hash[1].Nonce

\* Worker.selection
selection(latest) ==
    SortedNames[(Fnv32a(BlockHash(latest)) % Len(SortedNames)) + 1]

\* poaOperations receives a tick and enters runPoaOperation, which returns at
\* once when another peer is selected or the mempool is empty.
poaOperations ==
    /\ wpc = "wait"
    /\ IF selection(latestBlock) # Host
       THEN UNCHANGED <<pc, blk, ret, wpc, cpc, ctxDone, cancelMining, peerWon,
                        cancelLog>>
       ELSE StartOperation
    /\ UNCHANGED <<dbVars, mempool, mu, idx, startMining, sent, snap, applied,
                   call, shut, spc, shpc, txSharing, knownPeers, sweep, sync,
                   nEvents>>

\* runPoaOperation's mining goroutine after MineNewBlock returned a block:
\* State.NetSendBlockToPeers, then the deferred cancel().
NetSendBlockToPeers ==
    /\ pc["miner"] = "mined"
    /\ sent' = sent \cup {blk["miner"]}
    /\ pc' = [pc EXCEPT !["miner"] = "done"]
    /\ ctxDone' = TRUE
    /\ UNCHANGED <<dbVars, mempool, mu, blk, idx, ret, wpc, cpc, startMining,
                   cancelMining, snap, applied, call, peerWon, auxVars, nEvents>>

\* runPoaOperation: wg.Wait() returns.
runPoaOperation ==
    /\ wpc = "join"
    /\ pc["miner"] = "done"
    /\ cpc = "done"
    /\ wpc' = "wait"
    /\ cpc' = "off"
    /\ pc' = [pc EXCEPT !["miner"] = "off"]
    /\ blk' = [blk EXCEPT !["miner"] = ZeroBlock]
    /\ cancelLog' = NoCancelLog
    /\ UNCHANGED <<dbVars, mempool, mu, idx, ret, ctxDone, startMining,
                   cancelMining, sent, snap, applied, call, peerWon, shut, spc,
                   shpc, txSharing, knownPeers, sweep, sync, nEvents>>

\* ------------------------------------------------------------ specifications
\* A node that mines by proof of work.
Next ==
    \/ SubmitTx
    \/ \E t \in Proposers : \E b \in PeerBlocks(latestBlock, accounts) : ProposeBlock(t, b)
    \/ \E t \in Proposers : \E b \in BadBlocks(latestBlock, accounts) : ProposeBadBlock(t, b)
    \/ \E t \in Proposers : ProcessProposedBlock(t)
    \/ \E t \in Tasks : VudValidate(t)
    \/ \E t \in Tasks : VudWrite(t)
    \/ \E t \in Tasks : VudApplyTx(t)
    \/ \E t \in Tasks : VudReward(t)
    \/ MineCount
    \/ MinePick
    \/ MineLatest
    \/ MineState
    \/ performPOW
    \/ MineCtxCheck
    \/ powOperations
    \/ Canceller
    \/ PowMined
    \/ runPowOperation

Spec == Init /\ [][Next]_vars

\* The steps of the node's own goroutines, which the Go scheduler runs
\* whenever they can run.
NodeSteps ==
    \/ \E t \in Proposers : ProcessProposedBlock(t)
    \/ \E t \in Tasks : VudValidate(t)
    \/ \E t \in Tasks : VudWrite(t)
    \/ \E t \in Tasks : VudApplyTx(t)
    \/ \E t \in Tasks : VudReward(t)
    \/ MineCount
    \/ MinePick
    \/ MineLatest
    \/ MineState
    \/ performPOW
    \/ MineCtxCheck
    \/ powOperations
    \/ Canceller
    \/ PowMined
    \/ runPowOperation
    \/ ShutdownClose
    \/ ShutdownWait
    \/ powShutdown
    \/ shareTxShutdown

\* A proof-of-work node that may be shut down.
NextWorker ==
    \/ SubmitTx
    \/ \E t \in Proposers : \E b \in PeerBlocks(latestBlock, accounts) : ProposeBlock(t, b)
    \/ ShutdownSignal
    \/ NodeSteps

SpecWorker == Init /\ [][NextWorker]_vars /\ WF_vars(NodeSteps)

\* A node that mines by proof of authority.
NextPoA ==
    \/ SubmitTx
    \/ \E t \in Proposers : \E b \in PeerBlocks(latestBlock, accounts) : ProposeBlock(t, b)
    \/ \E t \in Proposers : \E b \in BadBlocks(latestBlock, accounts) : ProposeBadBlock(t, b)
    \/ \E t \in Proposers : ProcessProposedBlock(t)
    \/ \E t \in Tasks : VudValidate(t)
    \/ \E t \in Tasks : VudWrite(t)
    \/ \E t \in Tasks : VudApplyTx(t)
    \/ \E t \in Tasks : VudReward(t)
    \/ MineCount
    \/ MinePick
    \/ MineLatest
    \/ MineState
    \/ performPOW
    \/ MineCtxCheck
    \/ poaOperations
    \/ Canceller
    \/ NetSendBlockToPeers
    \/ runPoaOperation

SpecPoA == Init /\ [][NextPoA]_vars

\* ------------------------------------------- ApplyTransaction on its own
\* Account tables a call may find: the sender's balance and nonce vary.
TxAccountTables ==
    {Store(GenesisAccounts, "a1", [newAccount("a1", b) EXCEPT !.Nonce = n]) :
        b \in {0, 5, 10}, n \in {0, 3}}

\* Transactions of every shape the fields allow, u64 extremes included.
TxInputs ==
    {[NewTx(p[1], p[2], v, n, tip) EXCEPT !.GasPrice = gp, !.GasUnits = gu] :
        p \in {<<"a1", "a2">>, <<"a1", "m1">>, <<"m1", "a2">>},
        v \in {0, 1, 5, MaxU64}, n \in {1, 4, 5}, tip \in {0, 2, 6},
        gp \in {1, U64 \div 2}, gu \in {1, 2}}

InitTx ==
    /\ accounts \in TxAccountTables
    /\ latestBlock = ZeroBlock
    /\ chain = <<>>
    /\ mempool = EmptyMempool
    /\ mu = ""
    /\ pc = [t \in Tasks |-> IF t = "miner" THEN "off" ELSE "idle"]
    /\ blk = [t \in Tasks |-> ZeroBlock]
    /\ idx = [t \in Tasks |-> 0]
    /\ ret = [t \in Tasks |-> NoRet]
    /\ wpc = "wait"
    /\ cpc = "off"
    /\ ctxDone = FALSE
    /\ startMining = 0
    /\ cancelMining = 0
    /\ sent = {}
    /\ snap = [t \in Tasks |-> NoSnap]
    /\ applied = <<>>
    /\ call = NoCall
    /\ nEvents = 0
    /\ peerWon = FALSE
    /\ shut = FALSE
    /\ spc = "idle"
    /\ shpc = "wait"
    /\ txSharing = <<>>
    /\ knownPeers = KnownPeers
    /\ sweep = NoSweep
    /\ sync = NoSync
    /\ cancelLog = NoCancelLog

\* One call of Database.ApplyTransaction for a block of beneficiary bnfcID.
TxApply ==
    /\ ~call.used
    /\ \E bnfcID \in {beneficiaryID, PeerBeneficiaryID} : \E tx \in TxInputs :
          LET res == ApplyTransaction(accounts, bnfcID, tx)
          IN /\ call' = [used |-> TRUE, accts |-> accounts, bnfc |-> bnfcID,
                         tx |-> tx, res |-> res]
             /\ accounts' = res.accounts
    /\ UNCHANGED <<latestBlock, chain, mempool, mu, pc, blk, idx, ret, workerVars,
                   startMining, cancelMining, sent, snap, applied, nEvents,
                   peerWon, auxVars>>

NextTx == TxApply

SpecTx == InitTx /\ [][NextTx]_vars

\* ---------------------------------------- UpsertWalletTransaction on its own
\* A SignedTx as a wallet sends it: no gas fields yet.
SignedTx(chainID, from, to, value, nonce, tip, signer) ==
    [ChainID |-> chainID, FromID |-> from, ToID |-> to, Value |-> value,
     Nonce |-> nonce, Tip |-> tip, Signer |-> signer]

\* Submissions of every kind Validate tells apart ("zz" is not an account
\* id), with nonces and values the sender's account may or may not cover.
AdmitInputs ==
    {SignedTx(c, p[1], p[2], v, n, tip, IF own THEN p[1] ELSE "m1") :
        c \in {genesis.ChainID, genesis.ChainID + 1},
        p \in {<<"a1", "a2">>, <<"a2", "a1">>, <<"a1", "a1">>, <<"zz", "a2">>,
               <<"a1", "zz">>},
        v \in {3, MaxU64}, n \in {1, 7}, tip \in {1, 5}, own \in BOOLEAN}

\* Mempools a submission may find: empty, or holding earlier submissions.
AdmitMempools ==
    LET first == WalletUpsert(EmptyMempool, 0,
                              SignedTx(genesis.ChainID, "a1", "a2", 3, 7, 1, "a1")).mempool
        second == WalletUpsert(first, 1,
                               SignedTx(genesis.ChainID, "a2", "a1", 1, 7, 5, "a2")).mempool
    IN {EmptyMempool, first, second}

InitAdmit ==
    /\ accounts \in TxAccountTables
    /\ latestBlock = ZeroBlock
    /\ chain = <<>>
    /\ mempool \in AdmitMempools
    /\ mu = ""
    /\ pc = [t \in Tasks |-> IF t = "miner" THEN "off" ELSE "idle"]
    /\ blk = [t \in Tasks |-> ZeroBlock]
    /\ idx = [t \in Tasks |-> 0]
    /\ ret = [t \in Tasks |-> NoRet]
    /\ wpc = "wait"
    /\ cpc = "off"
    /\ ctxDone = FALSE
    /\ startMining \in {0, 1}
    /\ cancelMining = 0
    /\ sent = {}
    /\ snap = [t \in Tasks |-> NoSnap]
    /\ applied = <<>>
    /\ call = NoCall
    /\ nEvents = 0
    /\ peerWon = FALSE
    /\ shut = FALSE
    /\ spc = "idle"
    /\ shpc = "wait"
    /\ txSharing = <<>>
    /\ knownPeers = KnownPeers
    /\ sweep = NoSweep
    /\ sync = NoSync
    /\ cancelLog = NoCancelLog

\* One call of State.UpsertWalletTransaction, with what it was given and
\* what it returned.
AdmitTx ==
    /\ ~call.used
    /\ \E tx \in AdmitInputs :
          /\ UpsertWalletTransaction(tx)
          /\ call' = [used |-> TRUE, tx |-> tx, mempool |-> mempool,
                      startMining |-> startMining,
                      err |-> WalletUpsert(mempool, startMining, tx).err]

NextAdmit == AdmitTx

SpecAdmit == InitAdmit /\ [][NextAdmit]_vars

\* ------------------------------------------------------- transaction sharing
\* SignalShareTx that waits for room in the channel: with the channel full
\* the send goes through only after a receive.
SignalShareTxBlocking(queue, blockTx) ==
    IF Len(queue) < maxTxShareRequests THEN Append(queue, blockTx)
    ELSE Append(Tail(queue), blockTx)

\* Worker.SignalShareTx: a non-blocking send on the txSharing channel, whose
\* capacity is maxTxShareRequests; the default case drops the transaction.
SignalShareTx(queue, blockTx) ==
    IF Len(queue) < maxTxShareRequests THEN Append(queue, blockTx) ELSE queue

\* The block transactions offered for sharing.
ShareTxs == WalletTxs

\* The queues the tx-share channel can hold.
RECURSIVE ShareQueues(_)
ShareQueues(n) ==
    IF n = 0 THEN {<<>>}
    ELSE LET shorter == ShareQueues(n - 1)
         IN shorter \cup {SignalShareTx(q, tx) : q \in shorter, tx \in ShareTxs}

InitShare ==
    /\ accounts = GenesisAccounts
    /\ latestBlock = ZeroBlock
    /\ chain = <<>>
    /\ mempool = EmptyMempool
    /\ mu = ""
    /\ pc = [t \in Tasks |-> IF t = "miner" THEN "off" ELSE "idle"]
    /\ blk = [t \in Tasks |-> ZeroBlock]
    /\ idx = [t \in Tasks |-> 0]
    /\ ret = [t \in Tasks |-> NoRet]
    /\ wpc = "wait"
    /\ cpc = "off"
    /\ ctxDone = FALSE
    /\ startMining = 0
    /\ cancelMining = 0
    /\ sent = {}
    /\ snap = [t \in Tasks |-> NoSnap]
    /\ applied = <<>>
    /\ call = NoCall
    /\ nEvents = 0
    /\ peerWon = FALSE
    /\ shut = FALSE
    /\ spc = "idle"
    /\ shpc = "wait"
    /\ txSharing \in ShareQueues(maxTxShareRequests)
    /\ knownPeers = KnownPeers
    /\ sweep = NoSweep
    /\ sync = NoSync
    /\ cancelLog = NoCancelLog

\* One call of Worker.SignalShareTx, with the queue it found and left.
ShareTxCall ==
    /\ nEvents < MaxEvents
    /\ nEvents' = nEvents + 1
    /\ \E tx \in ShareTxs :
          /\ txSharing' = SignalShareTx(txSharing, tx)
          /\ call' = [used |-> TRUE, tx |-> tx, queue |-> txSharing,
                      after |-> txSharing']
    /\ UNCHANGED <<dbVars, mempool, mu, pc, blk, idx, ret, workerVars,
                   startMining, cancelMining, sent, snap, applied, peerWon,
                   shut, spc, shpc, knownPeers, sweep, sync, cancelLog>>

\* shareTxOperations: a transaction is received from the channel and handed
\* to NetSendTxToPeers.
shareTxOperations ==
    /\ shpc = "wait"
    /\ txSharing # <<>>
    /\ txSharing' = Tail(txSharing)
    /\ UNCHANGED <<dbVars, mempool, mu, pc, blk, idx, ret, workerVars,
                   startMining, cancelMining, sent, snap, applied, call, peerWon,
                   shut, spc, shpc, knownPeers, sweep, sync,
                   cancelLog, nEvents>>

NextShare ==
    \/ ShareTxCall
    \/ shareTxOperations

SpecShare == InitShare /\ [][NextShare]_vars

\* ------------------------------------------------------------- peer updates
\* The hosts of the network; Host is this node.
Hosts == {"h1", "h2", "h3", "h4"}

\* PeerSet.Copy iterates over a map: the peers come in any order.
Orders(peers) ==
    {o \in [1..Cardinality(peers) -> peers] :
        \A i, j \in DOMAIN o : i # j => o[i] # o[j]}

\* PeerSet.Add, PeerSet.Remove, PeerSet.Copy
PeerSetAdd(peers, p) == peers \cup {p}
PeerSetRemove(peers, p) == peers \ {p}
PeerSetCopy(peers, host) == peers \ {host}

\* addNewPeers: every listed peer but this node is added.
addNewPeers(known, peers) == known \cup {p \in peers : p # Host}

InitPeers ==
    /\ accounts = GenesisAccounts
    /\ latestBlock = ZeroBlock
    /\ chain = <<>>
    /\ mempool = EmptyMempool
    /\ mu = ""
    /\ pc = [t \in Tasks |-> IF t = "miner" THEN "off" ELSE "idle"]
    /\ blk = [t \in Tasks |-> ZeroBlock]
    /\ idx = [t \in Tasks |-> 0]
    /\ ret = [t \in Tasks |-> NoRet]
    /\ wpc = "wait"
    /\ cpc = "off"
    /\ ctxDone = FALSE
    /\ startMining = 0
    /\ cancelMining = 0
    /\ sent = {}
    /\ snap = [t \in Tasks |-> NoSnap]
    /\ applied = <<>>
    /\ call = NoCall
    /\ nEvents = 0
    /\ peerWon = FALSE
    /\ shut = FALSE
    /\ spc = "idle"
    /\ shpc = "wait"
    /\ txSharing = <<>>
    /\ knownPeers \in {PeerSetAdd(KnownPeers, p) : p \in Hosts}
    /\ sweep = NoSweep
    /\ sync = NoSync
    /\ cancelLog = NoCancelLog

\* The frame of the peer loop: it touches the peer set only.
PeerFrame ==
    UNCHANGED <<dbVars, mempool, mu, pc, blk, idx, ret, workerVars, startMining,
                cancelMining, sent, snap, applied, call, peerWon, shut, spc,
                shpc, txSharing, sync, cancelLog>>

\* peerOperations receives a tick; runPeersOperation takes its copy of the
\* known external peers.
runPeersOperation ==
    /\ sweep.pc # "run"
    /\ ~shut
    /\ nEvents < MaxEvents
    /\ nEvents' = nEvents + 1
    /\ \E o \in Orders(PeerSetCopy(knownPeers, Host)) :
          sweep' = [pc |-> "run", todo |-> o, failed |-> {}, listed |-> {}]
    /\ UNCHANGED knownPeers
    /\ PeerFrame

\* One turn of the loop of runPeersOperation: NetRequestPeerStatus fails and
\* the peer is removed, or it answers with the peers it knows and
\* addNewPeers adds them.
NetRequestPeerStatus ==
    /\ sweep.pc = "run"
    /\ sweep.todo # <<>>
    /\ LET peer == Head(sweep.todo)
       IN \/ /\ knownPeers' = PeerSetRemove(knownPeers, peer)
             /\ sweep' = [sweep EXCEPT !.todo = Tail(@),
                                       !.failed = @ \cup {peer}]
          \/ \E peers \in SUBSET Hosts :
                /\ knownPeers' = addNewPeers(knownPeers, peers)
                /\ sweep' = [sweep EXCEPT !.todo = Tail(@),
                                          !.listed = @ \cup peers]
    /\ UNCHANGED nEvents
    /\ PeerFrame

\* runPeersOperation: the loop is over, NetSendNodeAvailableToPeers.
NetSendNodeAvailableToPeers ==
    /\ sweep.pc = "run"
    /\ sweep.todo = <<>>
    /\ sweep' = [sweep EXCEPT !.pc = "done"]
    /\ UNCHANGED <<knownPeers, nEvents>>
    /\ PeerFrame

NextPeers ==
    \/ runPeersOperation
    \/ NetRequestPeerStatus
    \/ NetSendNodeAvailableToPeers

SpecPeers == InitPeers /\ [][NextPeers]_vars

\* -------------------------------------------------------------- peer sync
\* The loop over a block's transactions with a failed transaction leaving
\* the accounts as they were before it.
RECURSIVE ApplyTransSkipsFailed(_, _, _)
ApplyTransSkipsFailed(accts, bnfcID, trans) ==
    IF trans = <<>> THEN accts
    ELSE LET res == ApplyTransaction(accts, bnfcID, Head(trans))
         IN ApplyTransSkipsFailed(IF res.err = NoErr THEN res.accounts ELSE accts,
                                  bnfcID, Tail(trans))

\* The loop over block.MerkleTree.Values() that applies a block's
\* transactions in order; the error of ApplyTransaction is not looked at.
RECURSIVE ApplyTrans(_, _, _)
ApplyTrans(accts, bnfcID, trans) ==
    IF trans = <<>> THEN accts
    ELSE ApplyTrans(ApplyTransaction(accts, bnfcID, Head(trans)).accounts,
                    bnfcID, Tail(trans))

\* The accounts after a block: its transactions, then its mining reward.
ApplyBlock(accts, b) ==
    ApplyMiningReward(ApplyTrans(accts, b.Header.BeneficiaryID, b.Trans),
                      b.Header.BeneficiaryID, b.Header.MiningReward)

\* database.New after the genesis balances: the stored blocks are read in
\* order, each is validated against the running latest block and state
\* root, then applied; the first error ends the construction.
RECURSIVE Replay(_, _, _)
Replay(accts, latest, stored) ==
    IF stored = <<>> THEN [accounts |-> accts, latestBlock |-> latest, err |-> NoErr]
    ELSE LET block == Head(stored)
             err == ValidateBlock(block, latest, HashState(accts))
         IN IF err # NoErr
            THEN [accounts |-> accts, latestBlock |-> latest, err |-> err]
            ELSE Replay(ApplyBlock(accts, block), block, Tail(stored))

\* NewBlockData: the block as it is stored and sent to peers.
NewBlockData(block) ==
    [Hash |-> BlockHash(block), Header |-> block.Header, Trans |-> block.Trans]

\* ToBlock: the block of a BlockData; the hash that came with it is dropped.
ToBlock(blockData) == [Header |-> blockData.Header, Trans |-> blockData.Trans]

\* database.New on a storage that holds the BlockData of these blocks: the
\* iterator hands each one back through ToBlock.
DatabaseNew(stored) ==
    Replay(GenesisAccounts, ZeroBlock,
           [j \in 1..Len(stored) |-> ToBlock(NewBlockData(stored[j]))])

ErrToBlock == "merkle tree construction failed"
ErrSend == "peer request failed"

\* NetRequestPeerBlocks with the loop going on to the next block after a
\* block that ProcessProposedBlock refused.
SyncReturnSkipsFailure ==
    /\ sync.pc = "call"
    /\ pc["p1"] = "idle"
    /\ sync' = [sync EXCEPT !.pc = "run", !.i = @ + 1]
    /\ UNCHANGED <<dbVars, mempool, mu, pc, blk, idx, ret, workerVars,
                   startMining, cancelMining, sent, snap, applied, call,
                   nEvents, peerWon, shut, spc, shpc, txSharing, knownPeers,
                   sweep, cancelLog>>

\* A transaction of this node's beneficiary with a nonce that is not the
\* next one.
T4 == NewTx("m1", "a2", 1, 2, 0)

\* The chains a peer may hold past this node's latest block, as the lists of
\* BlockData it answers with: none, one or two good blocks, lists with a
\* block no state accepts in the first, second or third place, and blocks
\* this node's beneficiary mined earlier, whose first transaction fails.
PeerLists(latest, accts) ==
    LET firsts == {GoodBlock(latest, accts, tr) : tr \in {<<T1>>, <<T3>>, <<T2>>}}
        second(b1, tr) == GoodBlock(b1, ApplyBlock(accts, b1), tr)
        own(tr) == NewBlock(latest, beneficiaryID, HashState(accts), tr, 0)
        forked(b) == [b EXCEPT !.Header.Number = @ + 1]
        stale(b) == [b EXCEPT !.Header.StateRoot = Hash(<<>>)]
        chains ==
            {<<>>}
            \cup {<<b1>> : b1 \in firsts}
            \cup {<<b1, second(b1, <<T2>>)>> : b1 \in firsts}
            \cup {<<forked(b1)>> : b1 \in firsts}
            \cup {<<b1, forked(second(b1, <<T2>>)), second(b1, <<T2>>)>> : b1 \in firsts}
            \cup {<<b1, stale(second(b1, <<T2>>)), second(b1, <<T2>>)>> : b1 \in firsts}
            \cup {<<b1, second(b1, <<T2>>), stale(second(b1, <<T2>>))>> : b1 \in firsts}
            \cup {<<own(<<T2, T1>>)>>, <<own(<<T4, T3>>)>>}
    IN {[j \in 1..Len(c) |-> NewBlockData(c[j])] : c \in chains}

\* The frame of the sync loop's own steps.
SyncFrame ==
    UNCHANGED <<dbVars, mempool, mu, idx, workerVars, startMining,
                cancelMining, sent, snap, applied, call, peerWon, shut, spc,
                shpc, txSharing, knownPeers, sweep, cancelLog>>

\* NetRequestPeerBlocks up to the answer of the peer: the request names
\* LatestBlock().Header.Number + 1; send fails, or the peer answers a list.
NetRequestPeerBlocks ==
    /\ sync.pc \in {"idle", "done"}
    /\ pc["p1"] = "idle"
    /\ nEvents < MaxEvents
    /\ nEvents' = nEvents + 1
    /\ LET from == Add(latestBlock.Header.Number, 1)
       IN \/ sync' = [pc |-> "done", from |-> from, list |-> <<>>, i |-> 1,
                      base |-> chain, err |-> ErrSend]
          \/ \E blocksData \in PeerLists(latestBlock, accounts) :
                sync' = [pc |-> "run", from |-> from, list |-> blocksData,
                         i |-> 1, base |-> chain, err |-> NoErr]
    /\ UNCHANGED <<pc, blk, ret>>
    /\ SyncFrame

\* One turn of the loop of NetRequestPeerBlocks: ToBlock fails and its error
\* is returned, or ProcessProposedBlock is entered with the block.
SyncToBlock ==
    /\ sync.pc = "run"
    /\ sync.i <= Len(sync.list)
    /\ \/ /\ sync' = [sync EXCEPT !.pc = "done", !.err = ErrToBlock]
          /\ UNCHANGED <<pc, blk>>
       \/ /\ blk' = [blk EXCEPT !["p1"] = ToBlock(sync.list[sync.i])]
          /\ pc' = [pc EXCEPT !["p1"] = "validate"]
          /\ sync' = [sync EXCEPT !.pc = "call"]
    /\ UNCHANGED <<ret, nEvents>>
    /\ SyncFrame

\* ProcessProposedBlock has returned: its error ends NetRequestPeerBlocks,
\* and without an error the loop goes on to the next block.
SyncReturn ==
    /\ sync.pc = "call"
    /\ pc["p1"] = "idle"
    /\ sync' = IF ret["p1"].Err # NoErr
               THEN [sync EXCEPT !.pc = "done", !.err = ret["p1"].Err]
               ELSE [sync EXCEPT !.pc = "run", !.i = @ + 1]
    /\ UNCHANGED <<dbVars, mempool, mu, pc, blk, idx, ret, workerVars,
                   startMining, cancelMining, sent, snap, applied, call,
                   nEvents, peerWon, shut, spc, shpc, txSharing, knownPeers,
                   sweep, cancelLog>>

\* The loop of NetRequestPeerBlocks is over the list: return nil.
SyncEnd ==
    /\ sync.pc = "run"
    /\ sync.i > Len(sync.list)
    /\ sync' = [sync EXCEPT !.pc = "done"]
    /\ UNCHANGED <<pc, blk, ret, nEvents>>
    /\ SyncFrame

\* Worker.Sync runs before the worker's goroutines are started: the node
\* holds genesis, or genesis and one stored block, and only the sync acts.
InitSync ==
    /\ \E stored \in {<<>>, <<GoodBlock(ZeroBlock, GenesisAccounts, <<T1>>)>>} :
          /\ chain = stored
          /\ latestBlock = IF stored = <<>> THEN ZeroBlock ELSE stored[1]
          /\ accounts = IF stored = <<>> THEN GenesisAccounts
                        ELSE ApplyBlock(GenesisAccounts, stored[1])
    /\ mempool = EmptyMempool
    /\ mu = ""
    /\ pc = [t \in Tasks |-> IF t = "miner" THEN "off" ELSE "idle"]
    /\ blk = [t \in Tasks |-> ZeroBlock]
    /\ idx = [t \in Tasks |-> 0]
    /\ ret = [t \in Tasks |-> NoRet]
    /\ wpc = "wait"
    /\ cpc = "off"
    /\ ctxDone = FALSE
    /\ startMining = 0
    /\ cancelMining = 0
    /\ sent = {}
    /\ snap = [t \in Tasks |-> NoSnap]
    /\ applied = <<>>
    /\ call = NoCall
    /\ nEvents = 0
    /\ peerWon = FALSE
    /\ shut = FALSE
    /\ spc = "idle"
    /\ shpc = "wait"
    /\ txSharing = <<>>
    /\ knownPeers = KnownPeers
    /\ sweep = NoSweep
    /\ sync = NoSync
    /\ cancelLog = NoCancelLog

NextSync ==
    \/ NetRequestPeerBlocks
    \/ SyncToBlock
    \/ VudValidate("p1")
    \/ VudWrite("p1")
    \/ VudApplyTx("p1")
    \/ VudReward("p1")
    \/ ProcessProposedBlock("p1")
    \/ SyncReturn
    \/ SyncEnd

SpecSync == InitSync /\ [][NextSync]_vars

\* ---------------------------------------------------- the difficulty rule
\* A hash as signature.Hash prints it: "0x" and 64 hex digits, one character
\* to the element.
match == <<"0", "x">> \o [i \in 1..17 |-> "0"]

\* hash[:n] of Go: the first n characters, or a run-time panic when the
\* string is shorter than n.
SliceTo(s, n) == IF n > Len(s) THEN "panic" ELSE SubSeq(s, 1, n)

\* isHashSolved on the text of the hash; difficulty is a uint16. The result
\* is "true", "false", or "panic" when a slice expression is out of range.
isHashSolvedText(difficulty, hash) ==
    IF Len(hash) # 66 THEN "false"
    ELSE LET d == (difficulty + 2) % 65536
             left == SliceTo(hash, d)
             right == SliceTo(match, d)
         IN IF left = "panic" \/ right = "panic" THEN "panic"
            ELSE IF left = right THEN "true" ELSE "false"

\* The difficulties a genesis file may set, up to the 64 digits of a hash.
Difficulties == 0..64

\* Texts to check: hashes with every number of leading zero digits, texts
\* one character short or long, and a text without the "0x" prefix.
HexHash(zeros, len) ==
    [i \in 1..len |-> IF i = 1 THEN "0" ELSE IF i = 2 THEN "x"
                      ELSE IF i <= zeros + 2 THEN "0" ELSE "f"]

HashTexts ==
    {HexHash(z, 66) : z \in 0..64}
    \cup {HexHash(64, 65), HexHash(64, 67), HexHash(6, 65)}
    \cup {[HexHash(64, 66) EXCEPT ![2] = "0"]}

\* A direct call of isHashSolved.
InitSolved ==
    /\ accounts = GenesisAccounts
    /\ latestBlock = ZeroBlock
    /\ chain = <<>>
    /\ mempool = EmptyMempool
    /\ mu = ""
    /\ pc = [t \in Tasks |-> IF t = "miner" THEN "off" ELSE "idle"]
    /\ blk = [t \in Tasks |-> ZeroBlock]
    /\ idx = [t \in Tasks |-> 0]
    /\ ret = [t \in Tasks |-> NoRet]
    /\ wpc = "wait"
    /\ cpc = "off"
    /\ ctxDone = FALSE
    /\ startMining = 0
    /\ cancelMining = 0
    /\ sent = {}
    /\ snap = [t \in Tasks |-> NoSnap]
    /\ applied = <<>>
    /\ call = NoCall
    /\ nEvents = 0
    /\ peerWon = FALSE
    /\ shut = FALSE
    /\ spc = "idle"
    /\ shpc = "wait"
    /\ txSharing = <<>>
    /\ knownPeers = KnownPeers
    /\ sweep = NoSweep
    /\ sync = NoSync
    /\ cancelLog = NoCancelLog

SolvedCall ==
    /\ ~call.used
    /\ \E difficulty \in Difficulties : \E hash \in HashTexts :
          call' = [used |-> TRUE, difficulty |-> difficulty, hash |-> hash,
                   result |-> isHashSolvedText(difficulty, hash)]
    /\ UNCHANGED <<dbVars, mempool, mu, pc, blk, idx, ret, workerVars,
                   startMining, cancelMining, sent, snap, applied, nEvents,
                   peerWon, auxVars>>

NextSolved == SolvedCall

SpecSolved == InitSolved /\ [][NextSolved]_vars

\* ------------------------------------------------ proof of work, by itself
\* The text of Block.Hash for a header (ideal hash: for a header of odd
\* number every PowPeriod-th nonce gives a hash of zero digits only, for a
\* header of even number nonce 1 alone does).
HashText(header) ==
    HexHash(IF header.Number % 2 = 1
            THEN (IF (header.Nonce + header.Number) % PowPeriod = 0 THEN 64 ELSE 0)
            ELSE (IF header.Nonce = 1 THEN 64 ELSE 6), 66)

\* The difficulties POW is called with: the one of the genesis file, and 20.
PowDifficulties == {genesis.Difficulty, 20}

\* POWArgs: the arguments POW is called with.
PowPrevBlocks ==
    {ZeroBlock,
     NewBlock(ZeroBlock, PeerBeneficiaryID, HashState(GenesisAccounts), <<T1>>, 1)}

POWArgs ==
    [BeneficiaryID : {beneficiaryID, PeerBeneficiaryID},
     Difficulty : PowDifficulties,
     MiningReward : {genesis.MiningReward},
     PrevBlock : PowPrevBlocks,
     StateRoot : {HashState(GenesisAccounts)},
     Trans : {<<T1>>, <<T2, T1>>}]

\* The block POW constructs from its arguments, at a nonce.
POWBlock(args, nonce) ==
    LET b == NewBlock(args.PrevBlock, args.BeneficiaryID, args.StateRoot,
                      args.Trans, nonce)
    IN [b EXCEPT !.Header.Difficulty = args.Difficulty,
                 !.Header.MiningReward = args.MiningReward]

\* A direct call of POW under a context its caller may cancel.
InitPow ==
    /\ accounts = GenesisAccounts
    /\ latestBlock = ZeroBlock
    /\ chain = <<>>
    /\ mempool = EmptyMempool
    /\ mu = ""
    /\ pc = [t \in Tasks |-> IF t = "miner" THEN "off" ELSE "idle"]
    /\ blk = [t \in Tasks |-> ZeroBlock]
    /\ idx = [t \in Tasks |-> 0]
    /\ ret = [t \in Tasks |-> NoRet]
    /\ wpc = "wait"
    /\ cpc = "off"
    /\ ctxDone = FALSE
    /\ startMining = 0
    /\ cancelMining = 0
    /\ sent = {}
    /\ snap = [t \in Tasks |-> NoSnap]
    /\ applied = <<>>
    /\ call = NoCall
    /\ nEvents = 0
    /\ peerWon = FALSE
    /\ shut = FALSE
    /\ spc = "idle"
    /\ shpc = "wait"
    /\ txSharing = <<>>
    /\ knownPeers = KnownPeers
    /\ sweep = NoSweep
    /\ sync = NoSync
    /\ cancelLog = NoCancelLog

\* The frame of the direct call: the call record and the context only.
PowFrame ==
    UNCHANGED <<dbVars, mempool, mu, pc, blk, idx, ret, wpc, cpc, startMining,
                cancelMining, sent, snap, applied, nEvents, peerWon, auxVars>>

\* POW and performPOW up to the loop: the header is built with nonce 0 and
\* the nonce then starts at a random value below MaxInt64. When rand.Int
\* fails performPOW returns ctx.Err(), which is nil under a live context, and
\* POW returns the block as it stands.
PowStart ==
    /\ ~call.used
    /\ \E args \in POWArgs :
          \/ \E nonce \in 0..(U64 \div 2 - 2) :
                call' = [used |-> TRUE, pc |-> "loop", args |-> args,
                         nonce |-> nonce, attempts |-> 0, result |-> "none",
                         block |-> ZeroBlock]
          \/ call' = [used |-> TRUE, pc |-> "returned", args |-> args,
                      nonce |-> 0, attempts |-> 0,
                      result |-> IF ctxDone THEN ErrCancelled ELSE NoErr,
                      block |-> IF ctxDone THEN ZeroBlock ELSE POWBlock(args, 0)]
    /\ UNCHANGED ctxDone
    /\ PowFrame

\* The caller cancels the context.
PowCancel ==
    /\ call.used
    /\ ~ctxDone
    /\ ctxDone' = TRUE
    /\ UNCHANGED call
    /\ PowFrame

\* One turn of the performPOW loop: ctx.Err() is checked, then the block is
\* hashed and isHashSolved looks at the hash; a panic of isHashSolved ends
\* the call without a return value. POW returns the block when the loop ends
\* without error and an empty block otherwise. attempts records that the
\* loop turned.
PowIterate ==
    /\ call.used
    /\ call.pc = "loop"
    /\ call' = IF ctxDone
               THEN [call EXCEPT !.pc = "returned", !.result = ErrCancelled,
                                 !.attempts = 1]
               ELSE LET solved == isHashSolvedText(call.args.Difficulty,
                                      HashText(POWBlock(call.args, call.nonce).Header))
                    IN IF solved = "panic"
                       THEN [call EXCEPT !.pc = "returned", !.result = "panic",
                                         !.attempts = 1]
                       ELSE IF solved = "false"
                       THEN [call EXCEPT !.nonce = Add(@, 1), !.attempts = 1]
                       ELSE [call EXCEPT !.pc = "returned", !.result = NoErr,
                                         !.attempts = 1,
                                         !.block = POWBlock(call.args, call.nonce)]
    /\ UNCHANGED ctxDone
    /\ PowFrame

NextPow ==
    \/ PowStart
    \/ PowCancel
    \/ PowIterate

\* The loop of performPOW keeps turning while it has not returned.
SpecPow == InitPow /\ [][NextPow]_vars /\ WF_vars(PowIterate)

\* ---------------------------------------------- leader election, two nodes
\* Host names in the order of Go's string comparison.
HostOrder == <<"h1", "h2", "h3", "h4">>
HostRank(h) == CHOOSE i \in 1..Len(HostOrder) : HostOrder[i] = h

\* sort.Strings
RECURSIVE SortStrings(_)
SortStrings(names) ==
    IF names = <<>> THEN <<>>
    ELSE LET m == CHOOSE i \in DOMAIN names :
                     \A j \in DOMAIN names : HostRank(names[i]) <= HostRank(names[j])
         IN <<names[m]>>
            \o SortStrings([k \in 1..(Len(names) - 1) |->
                               IF k < m THEN names[k] ELSE names[k + 1]])

\* Worker.selection that indexes the peer list in the order PeerSet.Copy
\* returned it.
selectionUnsorted(names, latest) ==
    names[(Fnv32a(BlockHash(latest)) % Len(names)) + 1]

\* Worker.selection on the list State.KnownPeers returned and the latest
\* block.
selectionAmong(names, latest) ==
    SortStrings(names)[(Fnv32a(BlockHash(latest)) % Len(names)) + 1]

\* The latest blocks the two nodes may hold.
ElectBlocks ==
    {ZeroBlock} \cup
    {NewBlock(ZeroBlock, PeerBeneficiaryID, HashState(GenesisAccounts), <<T1>>, n) :
        n \in 1..2}

\* Two nodes of a PoA network at one tick of the cycle.
ElectNodes == {"A", "B"}

InitElect ==
    /\ accounts = GenesisAccounts
    /\ latestBlock = ZeroBlock
    /\ chain = <<>>
    /\ mempool = EmptyMempool
    /\ mu = ""
    /\ pc = [t \in Tasks |-> IF t = "miner" THEN "off" ELSE "idle"]
    /\ blk = [t \in Tasks |-> ZeroBlock]
    /\ idx = [t \in Tasks |-> 0]
    /\ ret = [t \in Tasks |-> NoRet]
    /\ wpc = "wait"
    /\ cpc = "off"
    /\ ctxDone = FALSE
    /\ startMining = 0
    /\ cancelMining = 0
    /\ sent = {}
    /\ snap = [t \in Tasks |-> NoSnap]
    /\ applied = <<>>
    /\ call = NoCall
    /\ nEvents = 0
    /\ peerWon = FALSE
    /\ shut = FALSE
    /\ spc = "idle"
    /\ shpc = "wait"
    /\ txSharing = <<>>
    /\ knownPeers = KnownPeers
    /\ sweep = NoSweep
    /\ sync = NoSync
    /\ cancelLog = NoCancelLog

ElectFrame ==
    UNCHANGED <<dbVars, mempool, mu, pc, blk, idx, ret, wpc, cpc, ctxDone,
                startMining, cancelMining, sent, snap, applied, nEvents,
                peerWon, auxVars>>

\* The two nodes before the tick: each with its host, its known peers (its
\* own host among them), its latest block and the length of its mempool.
ElectStart ==
    /\ ~call.used
    /\ \E hb \in Hosts \ {Host} :
       \E pa \in {p \in SUBSET Hosts : Host \in p} :
       \E pb \in {p \in SUBSET Hosts : hb \in p} :
       \E la \in ElectBlocks : \E lb \in ElectBlocks :
       \E ma \in 0..1 : \E mb \in 0..1 :
          call' = [used |-> TRUE,
                   node |-> [n \in ElectNodes |->
                       [host |-> IF n = "A" THEN Host ELSE hb,
                        peers |-> IF n = "A" THEN pa ELSE pb,
                        latest |-> IF n = "A" THEN la ELSE lb,
                        length |-> IF n = "A" THEN ma ELSE mb,
                        ticked |-> FALSE, leader |-> "", mined |-> FALSE,
                        sent |-> FALSE]]]
    /\ ElectFrame

\* runPoaOperation of one node: the selection over the peers in the order
\* PeerSet.Copy returned them; a node that is not selected returns, and so
\* does one with an empty mempool; the selected node mines and sends the
\* block to its peers when MineNewBlock returned it.
ElectTick(n) ==
    /\ call.used
    /\ ~call.node[n].ticked
    /\ \E names \in Orders(call.node[n].peers) : \E ok \in BOOLEAN :
          LET me == call.node[n]
              peer == selectionAmong(names, me.latest)
              mines == peer = me.host /\ me.length > 0
          IN call' = [call EXCEPT !.node[n] =
                         [me EXCEPT !.ticked = TRUE, !.leader = peer,
                                    !.mined = mines, !.sent = mines /\ ok]]
    /\ ElectFrame

NextElect ==
    \/ ElectStart
    \/ \E n \in ElectNodes : ElectTick(n)

SpecElect == InitElect /\ [][NextElect]_vars

\* ------------------------------------------------- the accounts, by itself
\* sort.Sort(byAccount(accounts)) on a slice: an insertion sort with
\* byAccount.Less, which moves a record to the left only past records of a
\* greater AccountID.
InsertByAccount(sorted, account) ==
    LET n == Cardinality({i \in DOMAIN sorted :
                 Rank(sorted[i].AccountID) <= Rank(account.AccountID)})
    IN SubSeq(sorted, 1, n) \o <<account>> \o SubSeq(sorted, n + 1, Len(sorted))

RECURSIVE SortByAccount(_)
SortByAccount(list) ==
    IF list = <<>> THEN <<>>
    ELSE InsertByAccount(SortByAccount(SubSeq(list, 1, Len(list) - 1)),
                         list[Len(list)])

\* Database.HashState when the range over db.accounts yields the keys in
\* this order.
HashStateIn(accts, order) ==
    Hash(SortByAccount([i \in DOMAIN order |-> accts[order[i]]]))

\* The balances of a genesis file that funds the wallets only.
WalletAccounts == [id \in {"a1", "a2"} |-> GenesisAccounts[id]]

\* The blocks the node may apply next: valid successors of its latest
\* block, mined by either beneficiary, with or without transactions.
LedgerBlocks(latest, accts) ==
    {b \in {NewBlock(latest, bnfcID, HashState(accts), trans, 0) :
               bnfcID \in {beneficiaryID, PeerBeneficiaryID},
               trans \in {<<>>, <<T1>>, <<T3>>}} :
        ValidateBlock(b, latest, HashState(accts)) = NoErr}

InitLedger ==
    /\ accounts \in {GenesisAccounts, WalletAccounts}
    /\ latestBlock = ZeroBlock
    /\ chain = <<>>
    /\ mempool = EmptyMempool
    /\ mu = ""
    /\ pc = [t \in Tasks |-> IF t = "miner" THEN "off" ELSE "idle"]
    /\ blk = [t \in Tasks |-> ZeroBlock]
    /\ idx = [t \in Tasks |-> 0]
    /\ ret = [t \in Tasks |-> NoRet]
    /\ wpc = "wait"
    /\ cpc = "off"
    /\ ctxDone = FALSE
    /\ startMining = 0
    /\ cancelMining = 0
    /\ sent = {}
    /\ snap = [t \in Tasks |-> NoSnap]
    /\ applied = <<>>
    /\ call = NoCall
    /\ nEvents = 0
    /\ peerWon = FALSE
    /\ shut = FALSE
    /\ spc = "idle"
    /\ shpc = "wait"
    /\ txSharing = <<>>
    /\ knownPeers = KnownPeers
    /\ sweep = NoSweep
    /\ sync = NoSync
    /\ cancelLog = NoCancelLog

\* validateUpdateDatabase of a valid block: the block is written, its
\* transactions and its mining reward are applied.
LedgerApply ==
    /\ ~call.used
    /\ nEvents < MaxLedgerBlocks
    /\ \E b \in LedgerBlocks(latestBlock, accounts) :
          /\ accounts' = ApplyBlock(accounts, b)
          /\ latestBlock' = b
          /\ chain' = Append(chain, b)
    /\ nEvents' = nEvents + 1
    /\ UNCHANGED <<mempool, mu, pc, blk, idx, ret, wpc, cpc, ctxDone,
                   startMining, cancelMining, sent, snap, applied, call,
                   peerWon, auxVars>>

\* A call of Database.HashState: the map is ranged over in some order.
LedgerHash ==
    /\ ~call.used
    /\ \E order \in Orders(DOMAIN accounts) :
          call' = [used |-> TRUE, order |-> order,
                   root |-> HashStateIn(accounts, order)]
    /\ UNCHANGED <<dbVars, mempool, mu, pc, blk, idx, ret, wpc, cpc, ctxDone,
                   startMining, cancelMining, sent, snap, applied, nEvents,
                   peerWon, auxVars>>

NextLedger ==
    \/ LedgerApply
    \/ LedgerHash

SpecLedger == InitLedger /\ [][NextLedger]_vars

\* ------------------------------------------------- broadcasts to the peers
\* The three broadcasts of the node and what a send to one peer may come to:
\* delivered, failed on the way, or refused by the peer (a status other than
\* 200 or 204); send returns an error for the last two.
Broadcasts == {"tx", "available", "block"}
SendOutcomes == {"ok", "failed", "rejected"}

InitCast ==
    /\ accounts = GenesisAccounts
    /\ latestBlock = ZeroBlock
    /\ chain = <<>>
    /\ mempool = EmptyMempool
    /\ mu = ""
    /\ pc = [t \in Tasks |-> IF t = "miner" THEN "off" ELSE "idle"]
    /\ blk = [t \in Tasks |-> ZeroBlock]
    /\ idx = [t \in Tasks |-> 0]
    /\ ret = [t \in Tasks |-> NoRet]
    /\ wpc = "wait"
    /\ cpc = "off"
    /\ ctxDone = FALSE
    /\ startMining = 0
    /\ cancelMining = 0
    /\ sent = {}
    /\ snap = [t \in Tasks |-> NoSnap]
    /\ applied = <<>>
    /\ call = NoCall
    /\ nEvents = 0
    /\ peerWon = FALSE
    /\ shut = FALSE
    /\ spc = "idle"
    /\ shpc = "wait"
    /\ txSharing = <<>>
    /\ knownPeers \in {p \in SUBSET Hosts : Host \in p}
    /\ sweep = NoSweep
    /\ sync = NoSync
    /\ cancelLog = NoCancelLog

\* The frame of a broadcast: the call record only; the peer set is read.
CastFrame ==
    UNCHANGED <<dbVars, mempool, mu, pc, blk, idx, ret, workerVars, startMining,
                cancelMining, sent, snap, applied, nEvents, peerWon, auxVars>>

\* The head of the three functions: s.KnownExternalPeers() copies the peer
\* set without this node, in the order the map yields.
BroadcastStart ==
    /\ ~call.used
    /\ \E kind \in Broadcasts :
       \E snapshot \in Orders(PeerSetCopy(knownPeers, Host)) :
          call' = [used |-> TRUE, kind |-> kind, known |-> knownPeers,
                   snapshot |-> snapshot, pc |-> "loop",
                   attempted |-> <<>>, outcomes |-> <<>>, err |-> NoErr]
    /\ CastFrame

\* One turn of the loop in a broadcast that returns at the first send error
\* whatever is sent.
BroadcastSendStopsAlways ==
    /\ call.used
    /\ call.pc = "loop"
    /\ IF Len(call.attempted) = Len(call.snapshot)
       THEN call' = [call EXCEPT !.pc = "done"]
       ELSE \E outcome \in SendOutcomes :
               LET p == call.snapshot[Len(call.attempted) + 1]
                   tried == [call EXCEPT !.attempted = Append(@, p),
                                         !.outcomes = Append(@, outcome)]
               IN call' = IF outcome # "ok"
                          THEN [tried EXCEPT !.pc = "done", !.err = ErrSend]
                          ELSE tried
    /\ CastFrame

\* One turn of the loop: the send to the next peer of the snapshot.
\* NetSendTxToPeers and NetSendNodeAvailableToPeers log a send error and go
\* on; NetSendBlockToPeers returns it. After the last peer the call returns.
BroadcastSend ==
    /\ call.used
    /\ call.pc = "loop"
    /\ IF Len(call.attempted) = Len(call.snapshot)
       THEN call' = [call EXCEPT !.pc = "done"]
       ELSE \E outcome \in SendOutcomes :
               LET p == call.snapshot[Len(call.attempted) + 1]
                   tried == [call EXCEPT !.attempted = Append(@, p),
                                         !.outcomes = Append(@, outcome)]
               IN call' = IF call.kind = "block" /\ outcome # "ok"
                          THEN [tried EXCEPT !.pc = "done", !.err = ErrSend]
                          ELSE tried
    /\ CastFrame

NextCast ==
    \/ BroadcastStart
    \/ BroadcastSend

SpecCast == InitCast /\ [][NextCast]_vars

\* ------------------------------------------------------------- properties
\* Balance and nonce of an account, zero for an account the table lacks.
BalanceOf(accts, id) == IF id \in DOMAIN accts THEN accts[id].Balance ELSE 0
NonceOf(accts, id) == IF id \in DOMAIN accts THEN accts[id].Nonce ELSE 0

RECURSIVE SumBalances(_, _)
SumBalances(accts, keys) ==
    IF keys = {} THEN 0
    ELSE LET k == CHOOSE x \in keys : TRUE
         IN accts[k].Balance + SumBalances(accts, keys \ {k})

TotalBalance(accts) == SumBalances(accts, DOMAIN accts)

\* C1. Chain linkage: whenever the latest block changes, the new latest block
\* has the number of the previous one plus 1 and carries the hash of the
\* previous header (ZeroHash when the previous number is 0), and it is the
\* block just appended to the stored chain.
ChainLinkage ==
    [][latestBlock' # latestBlock =>
          /\ latestBlock'.Header.Number = latestBlock.Header.Number + 1
          /\ latestBlock'.Header.PrevBlockHash =
                 (IF latestBlock.Header.Number = 0 THEN ZeroHash
                  ELSE Hash(latestBlock.Header))
          /\ chain' = Append(chain, latestBlock')]_vars

\* C1 witness: the chain holds a block this node mined and a block of a peer.
ChainLinkageWitness ==
    \E i, j \in DOMAIN chain :
        /\ chain[i].Header.BeneficiaryID = beneficiaryID
        /\ chain[j].Header.BeneficiaryID = PeerBeneficiaryID

\* C2. State root: the state root of every block applied or being applied is
\* the hash of the accounts, sorted by account id, as they were when the
\* block's application began.
StateRootBeforeApply ==
    /\ \A i \in DOMAIN applied :
          applied[i].Block.Header.StateRoot =
              Hash(SortedAccounts(applied[i].Pre, DOMAIN applied[i].Pre))
    /\ \A t \in Tasks :
          pc[t] = "apply" =>
              blk[t].Header.StateRoot =
                  Hash(SortedAccounts(snap[t].Pre, DOMAIN snap[t].Pre))

\* C2 witness: a second block was applied, on accounts the first one changed.
StateRootWitness ==
    /\ Len(applied) >= 2
    /\ applied[2].Pre = applied[1].Post
    /\ applied[2].Pre # applied[1].Pre

\* C3. Balance conservation: for every applied block the balances after it
\* sum to the balances before it plus the block's mining reward.
BalanceConservation ==
    \A i \in DOMAIN applied :
        TotalBalance(applied[i].Post) =
            TotalBalance(applied[i].Pre) + applied[i].Block.Header.MiningReward

\* C4. Nonce progression: a transaction applied with success found its
\* sender's nonce at tx.Nonce - 1 and left it at tx.Nonce, and no (from, nonce)
\* is applied with success twice.
NonceProgression ==
    /\ \A i \in DOMAIN applied : \A k \in DOMAIN applied[i].Log :
          LET e == applied[i].Log[k]
          IN e.Err = NoErr => e.PreNonce = e.Key[2] - 1 /\ e.PostNonce = e.Key[2]
    /\ \A i, j \in DOMAIN applied :
          \A k \in DOMAIN applied[i].Log : \A l \in DOMAIN applied[j].Log :
              (/\ applied[i].Log[k].Err = NoErr
               /\ applied[j].Log[l].Err = NoErr
               /\ applied[i].Log[k].Key = applied[j].Log[l].Key)
              => (i = j /\ k = l)

\* C5. No underflow: every debit ApplyTransaction makes is at most the
\* sender's balance it is taken from.
NoUnderflow ==
    call.used =>
        \A k \in DOMAIN call.res.debits :
            call.res.debits[k].amount <= call.res.debits[k].balance

\* The gas fee of a call: min(gas_price * gas_units, from.balance).
CallGasFee ==
    LET fee == Mul(call.tx.GasPrice, call.tx.GasUnits)
        bal == BalanceOf(call.accts, call.tx.FromID)
    IN IF fee > bal THEN bal ELSE fee

\* What an account gains in a call that moves gas and, when all is set, the
\* value and the tip.
CallDelta(id, all) ==
    LET out == CallGasFee + (IF all THEN call.tx.Value + call.tx.Tip ELSE 0)
        toBnfc == CallGasFee + (IF all THEN call.tx.Tip ELSE 0)
    IN (IF id = call.tx.ToID /\ all THEN call.tx.Value ELSE 0)
       + (IF id = call.bnfc THEN toBnfc ELSE 0)
       - (IF id = call.tx.FromID THEN out ELSE 0)

\* C6. ApplyTransaction success path: with the next nonce and a balance that,
\* after the gas fee, covers value + tip, the call succeeds, the sender loses
\* gas fee + value + tip, the recipient gains the value, the beneficiary gains
\* gas fee + tip, the sender's nonce is tx.Nonce and nothing else changes.
ApplySuccessPath ==
    (/\ call.used
     /\ call.tx.Nonce = NonceOf(call.accts, call.tx.FromID) + 1
     /\ BalanceOf(call.accts, call.tx.FromID) - CallGasFee
            >= call.tx.Value + call.tx.Tip)
    => /\ call.res.err = NoErr
       /\ \A id \in AccountIDs :
             /\ BalanceOf(call.res.accounts, id)
                    = BalanceOf(call.accts, id) + CallDelta(id, TRUE)
             /\ NonceOf(call.res.accounts, id)
                    = (IF id = call.tx.FromID THEN call.tx.Nonce
                       ELSE NonceOf(call.accts, id))

\* C7. ApplyTransaction failure path: a call that fails moves the gas fee from
\* the sender to the beneficiary and changes nothing else; balance 10 with
\* value 5, tip 6 and gas 1 * 1 fails with insufficient funds at balance 9,
\* and nonce 5 on an account at nonce 3 fails with invalid nonce.
ApplyFailurePath ==
    call.used =>
        /\ call.res.err # NoErr =>
              \A id \in AccountIDs :
                 /\ BalanceOf(call.res.accounts, id)
                        = BalanceOf(call.accts, id) + CallDelta(id, FALSE)
                 /\ NonceOf(call.res.accounts, id) = NonceOf(call.accts, id)
        /\ (/\ BalanceOf(call.accts, call.tx.FromID) = 10
            /\ call.tx.Nonce = NonceOf(call.accts, call.tx.FromID) + 1
            /\ call.tx.Value = 5 /\ call.tx.Tip = 6
            /\ call.tx.GasPrice = 1 /\ call.tx.GasUnits = 1
            /\ call.bnfc # call.tx.FromID)
           => /\ call.res.err = ErrFunds
              /\ BalanceOf(call.res.accounts, call.tx.FromID) = 9
        /\ (NonceOf(call.accts, call.tx.FromID) = 3 /\ call.tx.Nonce = 5)
           => call.res.err = ErrNonce

SameHeightRace ==
    /\ Cardinality({t \in Tasks : pc[t] \in {"write", "apply"}}) <= 1
    /\ \A i \in DOMAIN chain : chain[i].Header.Number = i
    /\ latestBlock.Header.Number = Len(chain)
    /\ \A t \in Tasks :
          pc[t] \in {"apply", "mined", "signal"} => chain[blk[t].Header.Number] = blk[t]

\* C9 witness: the mined block and a proposed block of the same number, one
\* inside the critical section and the other waiting for the lock.
SameHeightRaceWitness ==
    \E t, u \in Tasks :
        /\ "miner" \in {t, u}
        /\ pc[t] = "apply"
        /\ pc[u] = "validate"
        /\ blk[t].Header.Number = blk[u].Header.Number

PowWorkflowCompletes ==
    (pc["miner"] = "done" /\ ret["miner"].Err = NoErr) =>
        /\ \E i \in DOMAIN applied : applied[i].Block = blk["miner"]
        /\ blk["miner"] \in sent

MinerStep ==
    /\ pc["miner"] \in {"count", "pick", "latest", "state", "pow", "ctxcheck",
                        "validate", "write", "apply"}
    /\ pc'["miner"] # pc["miner"] \/ blk'["miner"] # blk["miner"]
       \/ idx'["miner"] # idx["miner"]

BlockKeys(b) == {mapKey(b.Trans[i]) : i \in DOMAIN b.Trans}

\* C14. Mempool entry lifecycle, as stated: when validateUpdateDatabase
\* returns nil the mempool holds no entry under the key of a transaction of
\* the block, and a key leaves the mempool only in the application of a
\* block that contains it.
MempoolPurgedOnSuccess ==
    [][/\ \A t \in Tasks :
            (pc[t] = "apply" /\ pc'[t] \in {"mined", "signal"})
                => BlockKeys(blk[t]) \cap DOMAIN mempool' = {}
       /\ \A k \in DOMAIN mempool \ DOMAIN mempool' :
            \E t \in Tasks : pc[t] = "apply" /\ k \in BlockKeys(blk[t])
      ]_vars

\* C14 as amended: each turn of the loop of validateUpdateDatabase removes
\* the key of its transaction from the mempool, whether or not the
\* transaction applies; a key enters the mempool only by an accepted
\* submission; and a key leaves the mempool only in the turn of the loop that
\* applies a transaction with that key.
MempoolLifecycle ==
    [][/\ \A t \in Tasks :
            (pc[t] = "apply" /\ idx'[t] = idx[t] + 1)
                => mapKey(blk[t].Trans[idx[t]]) \notin DOMAIN mempool'
       /\ \A k \in DOMAIN mempool' \ DOMAIN mempool :
            nEvents' = nEvents + 1 /\ startMining' = 1
       /\ \A k \in DOMAIN mempool \ DOMAIN mempool' :
            \E t \in Tasks : /\ pc[t] = "apply"
                             /\ idx[t] <= Len(blk[t].Trans)
                             /\ k = mapKey(blk[t].Trans[idx[t]])
      ]_vars

\* C14 witness: an applied block holds a transaction whose apply failed, the
\* mempool no longer holds its key, and holds another entry.
MempoolLifecycleWitness ==
    /\ Count(mempool) > 0
    /\ \E i \in DOMAIN applied : \E j \in DOMAIN applied[i].Log :
          /\ applied[i].Log[j].Err # NoErr
          /\ applied[i].Log[j].Key \notin DOMAIN mempool

\* C15. Mempool replace: after an accepted submission the mempool holds the
\* submitted transaction under its (from, nonce) key; every other entry is as
\* before; the count is unchanged when the key was already present and one
\* more otherwise.
MempoolReplace ==
    (call.used /\ call.err = NoErr) =>
        LET k == mapKey(call.tx)
        IN /\ DOMAIN mempool = DOMAIN call.mempool \cup {k}
           /\ \A f \in DOMAIN call.tx : mempool[k][f] = call.tx[f]
           /\ \A j \in DOMAIN call.mempool \ {k} : mempool[j] = call.mempool[j]
           /\ Count(mempool) =
                 Count(call.mempool) + (IF k \in DOMAIN call.mempool THEN 0 ELSE 1)

\* C15 witness: (a1, 7, tip 5) submitted to a mempool that holds only
\* (a1, 7, tip 1) leaves one entry, with tip 5.
MempoolReplaceWitness ==
    /\ call.used
    /\ Count(call.mempool) = 1
    /\ <<"a1", 7>> \in DOMAIN call.mempool
    /\ call.mempool[<<"a1", 7>>].Tip = 1
    /\ call.tx.Tip = 5
    /\ Count(mempool) = 1
    /\ mempool[<<"a1", 7>>].Tip = 5

\* The admission rule of the specification: chain id, well-formed and
\* distinct account ids, signed by the sender.
Admissible(tx) ==
    /\ tx.ChainID = genesis.ChainID
    /\ tx.FromID \in AccountIDs
    /\ tx.ToID \in AccountIDs
    /\ tx.FromID # tx.ToID
    /\ tx.Signer = tx.FromID

\* C16. Transaction admission: UpsertWalletTransaction returns nil exactly
\* for the admissible submissions, whatever the sender's nonce and balance;
\* an accepted one is in the mempool with the genesis gas price and one unit
\* of gas and start-mining holds a token; a rejected one leaves the mempool
\* and the start-mining channel as they were.
TransactionAdmission ==
    call.used =>
        /\ call.err = NoErr <=> Admissible(call.tx)
        /\ call.err = NoErr =>
              /\ mapKey(call.tx) \in DOMAIN mempool
              /\ mempool[mapKey(call.tx)] =
                    NewBlockTx(call.tx, genesis.GasPrice, 1)
              /\ mempool[mapKey(call.tx)].GasPrice = genesis.GasPrice
              /\ mempool[mapKey(call.tx)].GasUnits = 1
              /\ startMining = 1
        /\ call.err # NoErr =>
              /\ mempool = call.mempool
              /\ startMining = call.startMining

\* C16 witness: a submission is accepted from a sender whose balance is 0,
\* with a nonce that is not the next one and a value the sender cannot pay.
TransactionAdmissionWitness ==
    /\ call.used
    /\ call.err = NoErr
    /\ call.tx.FromID = "a1"
    /\ accounts["a1"].Balance = 0
    /\ call.tx.Nonce # accounts["a1"].Nonce + 1
    /\ call.tx.Value = MaxU64

\* C17. Mining is never starved by a lost signal: while the worker is not
\* shut down, a waiting mining loop with a non-empty mempool has a start
\* token pending; an accepted submission leaves a token pending, also while
\* an operation is in progress; an operation that ends with a non-empty
\* mempool leaves a token pending; and a non-empty mempool leads to a running
\* mining operation (or to shutdown, or to a mempool emptied by a peer's
\* block).
MiningNotStarved ==
    /\ []((~shut /\ wpc = "wait" /\ Count(mempool) > 0) => startMining = 1)
    /\ [][/\ (nEvents' = nEvents + 1 /\ mempool' # mempool) => startMining' = 1
          /\ (wpc = "join" /\ wpc' = "wait" /\ Count(mempool') > 0)
               => startMining' = 1
         ]_vars
    /\ (~shut /\ Count(mempool) > 0)
         ~> (wpc = "join" \/ shut \/ Count(mempool) = 0)

\* C17 witness: this node has applied a block it mined and, the mempool
\* being non-empty, a further mining operation is running.
MiningNotStarvedWitness ==
    /\ ~shut
    /\ wpc = "join"
    /\ Count(mempool) > 0
    /\ \E i \in DOMAIN applied :
          applied[i].Block.Header.BeneficiaryID = beneficiaryID

\* Shutdown's wait completes once the shutdown channel is closed (the POW of
\* the model always finds a solution).
ShutdownTerminates == (spc = "wait") ~> (spc = "done" /\ wpc = "returned")

\* C18. Shutdown cancels mining: once Shutdown has signalled cancel-mining
\* and closed the shutdown channel, a mining call that is about to run or is
\* running its POW has its context cancelled or a cancel token waiting for
\* its canceller.
ShutdownCancelsPow ==
    (shut /\ pc["miner"] \in {"count", "pick", "latest", "state", "pow"})
        => (ctxDone \/ cancelMining = 1)

\* C19. The tx-share queue is best effort and bounded: the queue never holds
\* more than maxTxShareRequests transactions; a call of SignalShareTx that
\* finds fewer pending appends its transaction; a call that finds the queue
\* full returns with the queue as it was.
ShareQueueBounded ==
    /\ Len(txSharing) <= maxTxShareRequests
    /\ call.used =>
          /\ Len(call.queue) < maxTxShareRequests
                => call.after = Append(call.queue, call.tx)
          /\ Len(call.queue) >= maxTxShareRequests
                => call.after = call.queue

\* C19 witness: SignalShareTx was called with the queue full and returned,
\* the queue was then received from, and it still lacks the dropped
\* transaction.
ShareQueueWitness ==
    /\ call.used
    /\ Len(call.queue) = maxTxShareRequests
    /\ Len(txSharing) < maxTxShareRequests
    /\ \A i \in DOMAIN call.queue : call.queue[i] # call.tx

\* C20. Failed peers are dropped for the sweep: when a sweep of
\* runPeersOperation ends, no peer whose status request failed in it is in
\* the peer set, and every other host that a successful status response
\* listed, this node's host excepted, is in the peer set.
FailedPeersDropped ==
    sweep.pc = "done" =>
        /\ sweep.failed \cap knownPeers = {}
        /\ (sweep.listed \ sweep.failed) \ {Host} \subseteq knownPeers

\* C21. Peer block sync is an in-order prefix: NetRequestPeerBlocks asks for
\* the blocks from latest + 1 upward and feeds the returned blocks to
\* ProcessProposedBlock in the order received; the local chain is at every
\* moment the chain the sync started from followed by a prefix of the
\* returned list, and when the sync is over the prefix is the whole list or
\* the sync returned an error, with nothing after the first failure applied.
SyncInOrderPrefix ==
    sync.pc # "idle" =>
        /\ sync.from = Len(sync.base) + 1
        /\ \E k \in 0..Len(sync.list) :
              /\ chain = sync.base \o [j \in 1..k |-> ToBlock(sync.list[j])]
              /\ sync.pc = "done" /\ sync.err = NoErr => k = Len(sync.list)
              /\ sync.pc = "done" /\ sync.err \notin {NoErr, ErrSend} =>
                    k < Len(sync.list)
              /\ sync.pc = "done" /\ sync.list # <<>> /\ k = Len(sync.list) =>
                    latestBlock = ToBlock(sync.list[k])

\* A sync that accepted one block, refused the second and left the third,
\* a valid successor of the first, unapplied.
SyncInOrderPrefixWitness ==
    /\ sync.pc = "done"
    /\ Len(sync.list) = 3
    /\ Len(chain) = Len(sync.base) + 1
    /\ sync.err \in {ErrChainForked, ErrInvalidBlock}
    /\ ValidateBlock(ToBlock(sync.list[3]), latestBlock, HashState(accounts)) = NoErr

\* C22. Fork detection without reorganization: the validation of a block
\* whose number is greater than the latest number plus 1 returns
\* ErrChainForked to its caller; the block is not written or applied, and
\* the latest block, the accounts, the mempool and the stored chain are
\* unchanged.
ForkDetectedNoReorg ==
    [][\A t \in Proposers :
          (/\ pc[t] = "validate"
           /\ pc'[t] # "validate"
           /\ blk[t].Header.Number > latestBlock.Header.Number + 1)
          => /\ ret'[t].Err = ErrChainForked
             /\ pc'[t] = "idle"
             /\ UNCHANGED <<latestBlock, accounts, mempool, chain, applied>>]_vars

\* A sync that accepted a block and was then ended by ErrChainForked.
ForkDetectedWitness ==
    /\ sync.pc = "done"
    /\ sync.err = ErrChainForked
    /\ ret["p1"].Err = ErrChainForked
    /\ Len(chain) = Len(sync.base) + 1
    /\ sync.list[sync.i].Header.Number = latestBlock.Header.Number + 2

\* C23. Difficulty rule: isHashSolved(difficulty, hash) returns true iff the
\* hash is exactly 66 characters and its first 2 + difficulty characters are
\* "0x" followed by difficulty '0' digits, and it returns a boolean for every
\* difficulty from 0 to 64.
DifficultyRule ==
    call.used =>
        LET d == call.difficulty
            want == [i \in 1..(d + 2) |-> IF i = 2 THEN "x" ELSE "0"]
            solved == /\ Len(call.hash) = 66
                      /\ SubSeq(call.hash, 1, d + 2) = want
        IN call.result = IF solved THEN "true" ELSE "false"

\* C24. Cancellation scenario: a proof of work started at difficulty 20 runs
\* until it is cancelled: once cancelled while running it returns the
\* cancellation error at its next loop iteration, without another hash
\* attempt and with no block produced, and it ends in no other way than by
\* that error or by a nonce whose hash has 20 leading zero digits.
CancellationScenario ==
    /\ [][(call.used /\ call.pc = "loop" /\ ctxDone /\ call' # call)
             => /\ call'.result = ErrCancelled
                /\ call'.pc = "returned"
                /\ call'.nonce = call.nonce
                /\ call'.block = ZeroBlock]_vars
    /\ []((call.used /\ call.args.Difficulty = 20
              /\ call.pc = "returned" /\ call.attempts = 1)
             => \/ call.result = ErrCancelled
                \/ /\ call.result = NoErr
                   /\ SubSeq(HashText(call.block.Header), 1, 22)
                         = [i \in 1..22 |-> IF i = 2 THEN "x" ELSE "0"])

\* C25. Only validate-and-apply writes accounts: a step that changes the
\* accounts table is a step of a task inside the critical section of
\* validate-and-apply, applying the block it has just stored as the latest
\* one; admission, mempool operations, mining up to the critical section,
\* cancelled or failed mining and rejected proposals leave every balance and
\* nonce and the set of accounts unchanged, and no account is ever removed.
OnlyApplyWritesAccounts ==
    [][/\ accounts' # accounts =>
             \E t \in Tasks : /\ pc[t] = "apply"
                              /\ mu = t
                              /\ latestBlock = blk[t]
                              /\ UNCHANGED <<latestBlock, chain>>
       /\ DOMAIN accounts \subseteq DOMAIN accounts']_vars

\* An account the genesis lacks exists after a block was applied, while an
\* admitted transaction waits in the mempool and the mining of this node has
\* ended with an error.
OnlyApplyWritesAccountsWitness ==
    /\ DOMAIN accounts # DOMAIN GenesisAccounts
    /\ Count(mempool) > 0
    /\ ret["miner"].Err \in {ErrCancelled, ErrInvalidBlock}
    /\ applied # <<>>

ApplyAtomicToReaders ==
    [][(pc["miner"] = "state" /\ pc'["miner"] = "pow")
          => ~\E t \in Tasks :
                 /\ pc[t] = "apply"
                 /\ blk["miner"].Header.Number = blk[t].Header.Number + 1
                 /\ blk["miner"].Header.PrevBlockHash = BlockHash(blk[t])]_vars

\* C28. A bad transaction cannot wedge an accepted block: when the
\* application of a transaction of a validated block fails, the block stays
\* the latest block, the transaction is out of the mempool, its sender has
\* paid the gas fee (to the block's beneficiary), and the loop goes on with
\* the next transaction; the transactions are applied in block order and the
\* mining reward is credited once, after the last of them.
BadTxCannotWedge ==
    [][\A t \in Tasks :
          /\ (pc[t] = "apply" /\ idx'[t] = idx[t] + 1
                /\ snap'[t].Log[idx[t]].Err # NoErr)
             => LET tx == blk[t].Trans[idx[t]]
                    bnfc == blk[t].Header.BeneficiaryID
                    balance == BalanceOf(accounts, tx.FromID)
                    fee0 == Mul(tx.GasPrice, tx.GasUnits)
                    gasFee == IF fee0 > balance THEN balance ELSE fee0
                IN /\ latestBlock' = blk[t]
                   /\ mapKey(tx) \notin DOMAIN mempool'
                   /\ BalanceOf(accounts', tx.FromID)
                         = IF tx.FromID = bnfc THEN balance ELSE balance - gasFee
                   /\ pc'[t] = "apply"
          /\ (pc[t] = "apply" /\ idx'[t] = idx[t] + 1)
             => /\ Len(snap'[t].Log) = idx[t]
                /\ snap'[t].Log[idx[t]].Key = mapKey(blk[t].Trans[idx[t]])
          /\ (pc[t] = "apply" /\ pc'[t] # "apply")
             => /\ Len(snap[t].Log) = Len(blk[t].Trans)
                /\ latestBlock' = blk[t]
                /\ Len(applied') = Len(applied) + 1
                /\ BalanceOf(accounts', blk[t].Header.BeneficiaryID)
                      = BalanceOf(accounts, blk[t].Header.BeneficiaryID)
                        + blk[t].Header.MiningReward]_vars

\* C29. Stale cancel tokens are discarded: a mining operation starts with
\* the cancel channel empty and its context live, whatever was signalled
\* before, and its context is cancelled by a cancel token only when
\* SignalCancelMining was called after the drain at its start.
StaleCancelDiscarded ==
    /\ [][(pc["miner"] = "off" /\ pc'["miner"] = "count")
             => cancelMining' = 0 /\ ~ctxDone' /\ cpc' = "select"]_vars
    /\ [](wpc = "join" /\ ctxDone /\ ~cancelLog.signalled
             => pc["miner"] \in {"done", "off"} /\ ret["miner"].Err # ErrCancelled)

\* An operation whose start drained a stale token has mined and applied its
\* block with no cancel signalled since.
StaleCancelDiscardedWitness ==
    /\ cancelLog.drained
    /\ ~cancelLog.signalled
    /\ wpc = "join"
    /\ pc["miner"] = "done"
    /\ ret["miner"].Err = NoErr
    /\ latestBlock.Header.BeneficiaryID = beneficiaryID

\* C30. Signals are non-blocking single tokens: at most one start token and
\* at most one cancel token are pending at any time; the step that calls
\* SignalCancelMining or SignalStartMining can always be taken, whatever the
\* worker is doing, and it leaves a token pending; when a token of that kind
\* is already pending the channel is left as it is.
SignalsSingleToken ==
    /\ [](startMining \in {0, 1} /\ cancelMining \in {0, 1})
    /\ [](\A t \in Proposers : pc[t] = "signal" => ENABLED ProcessProposedBlock(t))
    /\ [](nEvents < MaxEvents => ENABLED SubmitTx)
    /\ [][/\ (\E t \in Proposers : pc[t] = "signal" /\ pc'[t] = "idle")
             => cancelMining' = 1
          /\ (nEvents' # nEvents /\ mempool' # mempool) => startMining' = 1
          /\ (wpc = "join" /\ wpc' = "wait" /\ Count(mempool) > 0)
             => startMining' = 1]_vars

\* Two peer blocks were accepted with no mining operation in between: the
\* second SignalCancelMining found the token of the first still pending.
SignalsSingleTokenWitness ==
    /\ cancelMining = 1
    /\ nEvents = 2
    /\ Len(applied) = 2
    /\ \A i \in DOMAIN applied : applied[i].Block.Header.BeneficiaryID = PeerBeneficiaryID
    /\ \A t \in Tasks : pc[t] \in {"idle", "off"}

\* C31. An invalid proposal does not disturb mining: the step in which a
\* proposal handler's call returns a validation error signals no cancel
\* token and leaves the mining operation in progress, its candidate, its
\* context and its canceller as they were.
InvalidProposalNoCancel ==
    [][\A t \in Proposers :
          (ret'[t] # ret[t] /\ ret'[t].Err \in {ErrInvalidBlock, ErrChainForked})
          => /\ pc'[t] = "idle"
             /\ UNCHANGED <<cancelMining, ctxDone, cpc, wpc, cancelLog, peerWon>>
             /\ pc'["miner"] = pc["miner"]
             /\ blk'["miner"] = blk["miner"]]_vars

\* A proposal was refused and the proof of work of an operation that no
\* cancel was signalled to is running, its context live.
InvalidProposalNoCancelWitness ==
    /\ \E t \in Proposers : ret[t].Err \in {ErrInvalidBlock, ErrChainForked}
    /\ pc["miner"] = "pow"
    /\ wpc = "join"
    /\ ~ctxDone
    /\ cancelMining = 0
    /\ ~cancelLog.signalled
    /\ nEvents = 2

\* C32. PoW result: a block POW returns has number = prev.number + 1, the
\* previous hash hash(prev) (ZeroHash when prev is block 0), the beneficiary,
\* difficulty, mining reward and state root it was given, the Merkle root of
\* the given transactions, and a header hash that satisfies the difficulty
\* rule; a step of the search changes nothing but the nonce, by +1 modulo
\* 2^64 after a failed attempt.
PowResult ==
    /\ [][(call.used /\ call.pc = "loop" /\ call' # call)
             => /\ call'.args = call.args
                /\ \/ call'.nonce = call.nonce
                   \/ /\ call'.nonce = (call.nonce + 1) % U64
                      /\ call'.pc = "loop"
                      /\ isHashSolvedText(call.args.Difficulty,
                             HashText(POWBlock(call.args, call.nonce).Header))
                            = "false"]_vars
    /\ [](call.used /\ call.pc = "returned" /\ call.result = NoErr
             => LET args == call.args
                    h == call.block.Header
                IN /\ h.Number = args.PrevBlock.Header.Number + 1
                   /\ h.PrevBlockHash = IF args.PrevBlock.Header.Number = 0
                                        THEN ZeroHash
                                        ELSE Hash(args.PrevBlock.Header)
                   /\ h.BeneficiaryID = args.BeneficiaryID
                   /\ h.Difficulty = args.Difficulty
                   /\ h.MiningReward = args.MiningReward
                   /\ h.StateRoot = args.StateRoot
                   /\ h.TransRoot = MerkleRoot(args.Trans)
                   /\ call.block.Trans = args.Trans
                   /\ isHashSolvedText(h.Difficulty, HashText(h)) = "true")

\* The same, for the calls whose start nonce was drawn (the loop turned).
PowResultAfterSearch ==
    [](call.used /\ call.pc = "returned" /\ call.result = NoErr /\ call.attempts = 1
          => LET args == call.args
                 h == call.block.Header
             IN /\ call.block = POWBlock(args, h.Nonce)
                /\ h.Number = args.PrevBlock.Header.Number + 1
                /\ h.TransRoot = MerkleRoot(args.Trans)
                /\ isHashSolvedText(h.Difficulty, HashText(h)) = "true")

\* C33. Selection of mine_new_block: with an empty mempool it returns
\* ErrNoTransactions without running the proof of work and without changing
\* the accounts, the chain, the latest block or the mempool; otherwise the
\* candidate holds at least 1 and at most genesis.TransPerBlock transactions,
\* each of them in the mempool at the moment of the selection.
MineSelection ==
    /\ [][(pc["miner"] = "count" /\ pc'["miner"] # "count" /\ Count(mempool) = 0)
             => /\ pc'["miner"] = "done"
                /\ ret'["miner"].Err = ErrNoTransactions
                /\ UNCHANGED <<dbVars, mempool, sent>>]_vars
    /\ [][(pc["miner"] = "pick" /\ pc'["miner"] # "pick")
             => LET trans == blk'["miner"].Trans
                IN /\ Len(trans) >= 1
                   /\ Len(trans) <= genesis.TransPerBlock
                   /\ \A i \in DOMAIN trans :
                         /\ mapKey(trans[i]) \in DOMAIN mempool
                         /\ mempool[mapKey(trans[i])] = trans[i]]_vars

\* The selection without the lower bound on the number of transactions.
MineSelectionUpTo ==
    /\ [][(pc["miner"] = "count" /\ pc'["miner"] # "count" /\ Count(mempool) = 0)
             => /\ pc'["miner"] = "done"
                /\ ret'["miner"].Err = ErrNoTransactions
                /\ UNCHANGED <<dbVars, mempool, sent>>]_vars
    /\ [][(pc["miner"] = "pick" /\ pc'["miner"] # "pick")
             => LET trans == blk'["miner"].Trans
                IN /\ Len(trans) <= genesis.TransPerBlock
                   /\ \A i \in DOMAIN trans :
                         /\ mapKey(trans[i]) \in DOMAIN mempool
                         /\ mempool[mapKey(trans[i])] = trans[i]]_vars

\* C34. PoA leader election is deterministic and exclusive: the leader a
\* node picks is sorted_hosts[fnv32a(latest_block_hash) mod len(sorted_hosts)]
\* over its sorted known-peer hosts; two nodes with the same peer set (their
\* own hosts included) and the same latest block pick the same leader, so at
\* most one of them mines in the cycle, and a node that is not the leader
\* neither mines nor broadcasts.
LeaderExclusive ==
    call.used =>
       /\ \A n \in ElectNodes :
             LET me == call.node[n]
                 sorted == CHOOSE o \in Orders(me.peers) :
                              \A i \in 1..(Len(o) - 1) :
                                 HostRank(o[i]) < HostRank(o[i + 1])
             IN me.ticked =>
                   /\ me.leader = sorted[(Fnv32a(BlockHash(me.latest))
                                             % Len(sorted)) + 1]
                   /\ (me.leader # me.host => ~me.mined /\ ~me.sent)
       /\ LET a == call.node["A"]
              b == call.node["B"]
          IN (a.ticked /\ b.ticked /\ a.peers = b.peers /\ a.latest = b.latest)
                => /\ a.leader = b.leader
                   /\ ~(a.mined /\ b.mined)

\* Two nodes with the same four peers and the same latest block: the second
\* one is the leader, mined and sent its block, the first did neither.
LeaderExclusiveWitness ==
    /\ call.used
    /\ call.node["A"].ticked /\ call.node["B"].ticked
    /\ call.node["A"].peers = Hosts /\ call.node["B"].peers = Hosts
    /\ call.node["A"].latest = call.node["B"].latest
    /\ call.node["A"].length > 0
    /\ call.node["B"].leader = call.node["B"].host
    /\ call.node["B"].mined /\ call.node["B"].sent
    /\ ~call.node["A"].mined /\ ~call.node["A"].sent

\* C35. The state root is order-independent: hash_state depends only on
\* the set of account records (id, nonce, balance) and not on the order in
\* which the accounts were created or are iterated: every iteration order of
\* the same accounts gives the root a call of HashState returned.
StateRootOrderIndependent ==
    call.used =>
       \A order \in Orders(DOMAIN accounts) :
          HashStateIn(accounts, order) = call.root

\* The same for the tables in which every record carries its own key.
StateRootOrderIndependentKeyed ==
    (call.used /\ \A k \in DOMAIN accounts : accounts[k].AccountID = k) =>
       \A order \in Orders(DOMAIN accounts) :
          HashStateIn(accounts, order) = call.root

\* C39. Account records are keyed consistently: each record stored under
\* key k carries AccountID = k, a beneficiary account first created by a
\* mining reward included, and the state root is computed over records that
\* each identify the account they are stored under.
AccountsKeyedConsistently ==
    /\ \A k \in DOMAIN accounts : accounts[k].AccountID = k
    /\ call.used =>
          \A i \in DOMAIN call.root[1] :
             LET record == call.root[1][i]
             IN /\ record.AccountID \in DOMAIN accounts
                /\ accounts[record.AccountID] = record

\* The same for the accounts that a transaction or the genesis file created.
AccountsKeyedUnlessRewarded ==
    \A k \in DOMAIN accounts :
       \/ accounts[k].AccountID = k
       \/ /\ accounts[k].AccountID = EmptyID
          /\ \E i \in DOMAIN chain :
                chain[i].Header.BeneficiaryID = k /\ chain[i].Trans = <<>>

\* C36. A candidate built on stale data is never applied: when another block
\* was applied after the miner read the latest block and the state root and
\* before its candidate reaches validate-and-apply, the candidate is rejected
\* there: the accounts, the chain, the latest block and the mempool are left
\* as they were, the mining call returns the error, and the candidate is
\* neither in the chain nor among the blocks sent to the peers.
StaleCandidateRejected ==
    /\ [][(/\ pc["miner"] = "validate"
           /\ pc'["miner"] # "validate"
           /\ Len(chain) >= blk["miner"].Header.Number)
             => /\ ret'["miner"].Err = ErrInvalidBlock
                /\ pc'["miner"] = "done"
                /\ UNCHANGED <<dbVars, mempool, sent>>]_vars
    /\ [](ret["miner"].Err = ErrInvalidBlock /\ pc["miner"] = "done"
             => /\ blk["miner"] \notin sent
                /\ \A i \in DOMAIN chain : chain[i] # blk["miner"])

\* The miner's candidate was rejected as invalid after a peer's block took
\* the number it was built for: that block is in the chain, the candidate is
\* not, and the operation was not cancelled before the validation.
StaleCandidateRejectedWitness ==
    /\ pc["miner"] = "done"
    /\ ret["miner"].Err = ErrInvalidBlock
    /\ blk["miner"].Header.Number >= 1
    /\ Len(chain) >= blk["miner"].Header.Number
    /\ chain[blk["miner"].Header.Number].Header.BeneficiaryID = PeerBeneficiaryID
    /\ blk["miner"].Header.StateRoot # HashState(accounts)
    /\ \A i \in DOMAIN chain : chain[i] # blk["miner"]

\* C37. One mining operation at a time: the miner and the canceller
\* goroutines run only inside the worker's current operation, so at most one
\* proof-of-work search is in progress; a start signal is taken from the
\* channel only when no goroutine of an earlier operation is left, and an
\* operation ends only when its miner and its canceller have both finished.
OneMiningOperation ==
    /\ [][startMining' < startMining
             => /\ wpc = "wait"
                /\ pc["miner"] = "off"
                /\ cpc = "off"]_vars
    /\ [][(wpc = "join" /\ wpc' = "wait")
             => pc["miner"] = "done" /\ cpc = "done"]_vars
    /\ [](pc["miner"] \notin {"off", "done"} \/ cpc = "select" => wpc = "join")

\* The start signal that followed the first operation has been served: the
\* block of the first operation is in the chain, its goroutines are gone, and
\* the second operation is searching with its canceller waiting.
OneMiningOperationWitness ==
    /\ startMining = 0
    /\ wpc = "join"
    /\ pc["miner"] = "pow"
    /\ cpc = "select"
    /\ \E i \in DOMAIN chain : chain[i].Header.BeneficiaryID = beneficiaryID

\* C38. A mining operation always unwinds: once MineNewBlock has returned
\* the mining context is done, so the canceller can end without a cancel
\* token, and the operation goes on to end (runPowOperation returns to the
\* wait for the next start signal) with miner and canceller both finished; a
\* cancel signal after the miner has finished finds its sender able to go on
\* at once, whether the channel holds a token or not.
OperationUnwinds ==
    /\ []((wpc = "join" /\ pc["miner"] = "done") => ctxDone)
    /\ []((wpc = "join" /\ pc["miner"] = "done" /\ cpc = "select")
             => ENABLED (Canceller /\ UNCHANGED cancelMining))
    /\ []((wpc = "join" /\ pc["miner"] = "done" /\ cpc = "done")
             => ENABLED runPowOperation)
    /\ [](\A t \in Proposers :
             (pc[t] = "signal" /\ pc["miner"] \in {"done", "off"})
                => ENABLED ProcessProposedBlock(t))
    /\ (wpc = "join" /\ pc["miner"] \in {"mined", "done"}) ~> (wpc = "wait")

\* The miner returned a block without error and the canceller has ended on
\* the done context; a cancel token sent after that, by a peer's block, lies
\* in the channel and its sender has returned.
OperationUnwindsWitness ==
    /\ wpc = "join"
    /\ pc["miner"] = "done"
    /\ ret["miner"].Err = NoErr
    /\ cpc = "done"
    /\ cancelMining = 1
    /\ cancelLog.signalled
    /\ \A t \in Proposers : pc[t] = "idle"

\* C40. Broadcast failure handling differs by message: NetSendTxToPeers and
\* NetSendNodeAvailableToPeers attempt every external peer of their snapshot,
\* failed sends included, and never remove a peer; NetSendBlockToPeers
\* returns at the first peer whose send fails or is rejected, with an error,
\* and attempts every peer when none does; the node's own host is never
\* among the recipients.
BroadcastFailureHandling ==
    call.used =>
       /\ knownPeers = call.known
       /\ \A i \in DOMAIN call.attempted :
             /\ call.attempted[i] # Host
             /\ call.attempted[i] = call.snapshot[i]
       /\ {call.snapshot[i] : i \in DOMAIN call.snapshot} = call.known \ {Host}
       /\ (call.pc = "done" /\ call.kind \in {"tx", "available"})
             => call.attempted = call.snapshot /\ call.err = NoErr
       /\ (call.pc = "done" /\ call.kind = "block")
             => LET bad == {i \in DOMAIN call.outcomes : call.outcomes[i] # "ok"}
                IN IF bad = {}
                   THEN call.attempted = call.snapshot /\ call.err = NoErr
                   ELSE /\ bad = {Len(call.attempted)}
                        /\ call.err # NoErr
       /\ (call.pc = "loop" /\ call.kind = "block")
             => \A i \in DOMAIN call.outcomes : call.outcomes[i] = "ok"

\* A block broadcast to three external peers that returned at the second,
\* which rejected the block: the third was not attempted.
BroadcastFailureHandlingWitness ==
    /\ call.used
    /\ call.kind = "block"
    /\ call.pc = "done"
    /\ Len(call.snapshot) = 3
    /\ call.outcomes = <<"ok", "rejected">>

\* A transaction broadcast that attempted all three external peers although
\* the first two sends failed.
BroadcastAttemptsAll ==
    /\ call.used
    /\ call.kind = "tx"
    /\ call.pc = "done"
    /\ call.outcomes = <<"failed", "rejected", "ok">>

====
